---- MODULE Spec2Model ----
(***************************************************************************)
(* A model of cpparg (src/cpparg.hpp): the option table built by           *)
(* OptionParser::add_option, the result accumulator ParseResult, and the   *)
(* parsing engine OptionParser::parse / parse_argv.                        *)
(*                                                                         *)
(* Strings (std::string, std::string_view) are sequences of one-character  *)
(* strings, so that prefixes, substrings and single characters are what    *)
(* the code computes.  Positions inside a string and indices into argv are *)
(* 0-based as in the source; the element the iterator `first` points at is *)
(* argv[first + 1] of the TLA+ sequence.                                   *)
(***************************************************************************)
EXTENDS Integers, Sequences, FiniteSets, TLC

VARIABLES
    options,   \* OptionParser::options, the option table
    declared,  \* the arguments of the add_option calls that built the table,
               \* as the caller gave them
    entry,     \* what the caller uses: "parse", "parse_argv", or the member
               \* functions of a ParseResult of its own ("accumulate")
    argv,      \* the argument array (for parse: the range [first, last))
    pc,        \* position of the call: "call", "parse", "parse_argv_return",
               \* "done"; "accumulate" while a ParseResult is filled directly
    first,     \* parse: the iterator `first`, as a 0-based index into argv
    last,      \* parse: the iterator `last`, as a 0-based index into argv
    idx,       \* parse: the element counter `idx`
    res,       \* parse: the local ParseResult `res`; the caller's ParseResult
               \* when it is filled directly
    result,    \* the std::expected<ParseResult, ParseError> handed to the caller
    other,     \* a second parse call on the same table, made by another
               \* thread, while it is not the one taking a step: its argument
               \* range, position, locals and result; NoCall if there is none
    call       \* the last call of convert_to or get_option_help the caller
               \* has made: its arguments and what it returned; Idle before

vars ==
    <<options, declared, entry, argv, pc, first, last, idx, res, result, other,
      call>>

----------------------------------------------------------------------------
(* Bounds *)

\* longest argument range handed to parse
MaxArgs == 3

\* most calls made on a ParseResult that is filled directly
MaxCalls == 4

\* longest argument range of each of two calls that run at the same time
MaxShared == 2

\* most add_option calls made on a table that starts empty
MaxOptions == 2

\* largest magnitude written out as the digits of a convert_to input: above
\* the largest value of an 8-bit unsigned integer
MaxMagnitude == 258

\* largest of the small magnitudes that are written with every lead, prefix
\* and trailer: two digits in every radix
MaxPrefixed == 17

\* largest magnitude written before a magnitude suffix: above the number of
\* thousands a 16-bit unsigned integer holds
MaxScaled == 66

\* most add_option calls made on a table whose help text is generated
MaxHelpOptions == 2

\* the longest string given to word_wrap
MaxWrapLen == 6

\* the largest width given to word_wrap
MaxWidth == 5

----------------------------------------------------------------------------
(* std::string_view helpers *)

\* std::string_view::npos (only compared, and used as "to the end" count)
npos == -1

Min(a, b) == IF a < b THEN a ELSE b

\* sv.size()
size(sv) == Len(sv)

\* sv.starts_with(prefix)
starts_with(sv, prefix) ==
    /\ Len(prefix) <= Len(sv)
    /\ SubSeq(sv, 1, Len(prefix)) = prefix

\* sv.substr(pos, count): count characters from 0-based pos, clipped to the end
substr(sv, pos, count) ==
    IF count = npos
    THEN SubSeq(sv, pos + 1, Len(sv))
    ELSE SubSeq(sv, pos + 1, Min(pos + count, Len(sv)))

\* sv.remove_prefix(n)
remove_prefix(sv, n) == SubSeq(sv, n + 1, Len(sv))

\* the position of the last occurrence of ch in sv
find_last(sv, ch) ==
    LET hits == {i \in 1..Len(sv) : sv[i] = ch}
    IN  IF hits = {} THEN npos
        ELSE (CHOOSE i \in hits : \A j \in hits : i >= j) - 1

\* sv.find(ch): 0-based position of the first ch, or npos
find(sv, ch) ==
    LET hits == {i \in 1..Len(sv) : sv[i] = ch}
    IN  IF hits = {} THEN npos
        ELSE (CHOOSE i \in hits : \A j \in hits : i <= j) - 1

\* std::format with the literal pieces and the formatted arguments in order
format(pieces) == pieces

----------------------------------------------------------------------------
(* Option table: OptionParser::Option and OptionParser::add_option *)

\* Option::takes_argument
takes_argument(option) == option.arg_name # <<>>

\* requires_argument without the test for the bracket of an optional argument
requires_argument_unbracketed(option) == takes_argument(option)

\* Option::requires_argument
requires_argument(option) ==
    takes_argument(option) /\ ~starts_with(option.arg_name, <<"[">>)

\* add_option that stores the long flag as given, without the fallback to
\* the short flag
add_option_no_fallback(opts, short_flag, long_flag, arg_name, description) ==
    LET sf == IF size(short_flag) > 1 THEN SubSeq(short_flag, 1, 1)
              ELSE short_flag
        an == IF starts_with(arg_name, <<"=">>)
              THEN IF long_flag = <<>>
                   THEN remove_prefix(arg_name, 1)
                   ELSE arg_name
              ELSE IF starts_with(arg_name, <<"[">>)
              THEN IF long_flag = <<>>
                   THEN IF starts_with(arg_name, <<"[", "=">>)
                        THEN <<"[">> \o remove_prefix(arg_name, 2)
                        ELSE arg_name
                   ELSE IF ~starts_with(arg_name, <<"[", "=">>)
                        THEN <<"[", "=">> \o remove_prefix(arg_name, 1)
                        ELSE arg_name
              ELSE IF arg_name # <<>>
              THEN <<" ">> \o arg_name
              ELSE arg_name
    IN  Append(opts, [short_flag |-> sf, long_flag |-> long_flag,
                      arg_name |-> an, description |-> description])

\* add_option that stores the short flag as it is given
add_option_untruncated(opts, short_flag, long_flag, arg_name, description) ==
    LET an == IF starts_with(arg_name, <<"=">>)
              THEN IF long_flag = <<>>
                   THEN remove_prefix(arg_name, 1)
                   ELSE arg_name
              ELSE IF starts_with(arg_name, <<"[">>)
              THEN IF long_flag = <<>>
                   THEN IF starts_with(arg_name, <<"[", "=">>)
                        THEN <<"[">> \o remove_prefix(arg_name, 2)
                        ELSE arg_name
                   ELSE IF ~starts_with(arg_name, <<"[", "=">>)
                        THEN <<"[", "=">> \o remove_prefix(arg_name, 1)
                        ELSE arg_name
              ELSE IF arg_name # <<>>
              THEN <<" ">> \o arg_name
              ELSE arg_name
        lf == IF long_flag = <<>> THEN short_flag ELSE long_flag
    IN  Append(opts, [short_flag |-> short_flag, long_flag |-> lf,
                      arg_name |-> an, description |-> description])

\* add_option that stores the placeholder as it is given
add_option_as_given(opts, short_flag, long_flag, arg_name, description) ==
    LET sf == IF size(short_flag) > 1 THEN SubSeq(short_flag, 1, 1)
              ELSE short_flag
        lf == IF long_flag = <<>> THEN sf ELSE long_flag
    IN  Append(opts, [short_flag |-> sf, long_flag |-> lf,
                      arg_name |-> arg_name, description |-> description])

\* OptionParser::add_option applied to the table `opts`
add_option(opts, short_flag, long_flag, arg_name, description) ==
    LET sf == IF size(short_flag) > 1 THEN SubSeq(short_flag, 1, 1)
              ELSE short_flag
        an == IF starts_with(arg_name, <<"=">>)
              THEN IF long_flag = <<>>
                   THEN remove_prefix(arg_name, 1)
                   ELSE arg_name
              ELSE IF starts_with(arg_name, <<"[">>)
              THEN IF long_flag = <<>>
                   THEN IF starts_with(arg_name, <<"[", "=">>)
                        THEN <<"[">> \o remove_prefix(arg_name, 2)
                        ELSE arg_name
                   ELSE IF ~starts_with(arg_name, <<"[", "=">>)
                        THEN <<"[", "=">> \o remove_prefix(arg_name, 1)
                        ELSE arg_name
              ELSE IF arg_name # <<>>
              THEN <<" ">> \o arg_name
              ELSE arg_name
        lf == IF long_flag = <<>> THEN sf ELSE long_flag
    IN  Append(opts, [short_flag |-> sf, long_flag |-> lf,
                      arg_name |-> an, description |-> description])

\* the declarations of the test suite's default_parser, followed by one more
\* option without argument (so that clusters can name two such options)
Declarations ==
    << [short_flag |-> <<"n">>, long_flag |-> <<"n","o","a","r","g">>,
        arg_name |-> <<>>],
       [short_flag |-> <<"o">>, long_flag |-> <<"o","p","t","a","r","g">>,
        arg_name |-> <<"[","A","R","G","]">>],
       [short_flag |-> <<"r">>, long_flag |-> <<"r","e","q","a","r","g">>,
        arg_name |-> <<"A","R","G">>],
       [short_flag |-> <<"v">>, long_flag |-> <<"v","e","r","b">>,
        arg_name |-> <<>>] >>

RECURSIVE declare(_)
\* the chained add_option calls for the first n declarations
declare(n) ==
    IF n = 0 THEN <<>>
    ELSE add_option(declare(n - 1), Declarations[n].short_flag,
                    Declarations[n].long_flag, Declarations[n].arg_name, <<>>)

\* options.end() of a table
end(opts) == Len(opts) + 1

\* find_long_option that accepts an abbreviation: a name some long flag
\* starts with
find_long_option_abbreviated(opts, name) ==
    LET hits == {i \in 1..Len(opts) : starts_with(opts[i].long_flag, name)}
    IN  IF hits = {} THEN end(opts)
        ELSE CHOOSE i \in hits : \A j \in hits : i <= j

\* OptionParser::find_long_option: 1-based position of the first option
\* whose long flag is name, or end
find_long_option(opts, name) ==
    LET hits == {i \in 1..Len(opts) : opts[i].long_flag = name}
    IN  IF hits = {} THEN end(opts)
        ELSE CHOOSE i \in hits : \A j \in hits : i <= j

\* find_short_option that takes a short flag the cluster character starts
\* with, the empty one included
find_short_option_prefix(opts, flag) ==
    LET hits == {i \in 1..Len(opts) : starts_with(flag, opts[i].short_flag)}
    IN  IF hits = {} THEN end(opts)
        ELSE CHOOSE i \in hits : \A j \in hits : i <= j

\* OptionParser::find_short_option
find_short_option(opts, flag) ==
    LET hits == {i \in 1..Len(opts) : opts[i].short_flag = flag}
    IN  IF hits = {} THEN end(opts)
        ELSE CHOOSE i \in hits : \A j \in hits : i <= j

----------------------------------------------------------------------------
(* Result accumulator: ParsedOption and ParseResult *)

\* ParsedOption::ParsedOption(name)
ParsedOption(name) == [name |-> name, count |-> 0, arguments |-> <<>>]

\* a default-constructed ParseResult; lookup (an unordered_map) is a set of
\* key/value entries with at most one entry per key, the value being the
\* 0-based index of the name's entry in parsed_options
EmptyParseResult ==
    [lookup |-> {}, parsed_options |-> <<>>, positional_args |-> <<>>]

\* lookup.find(name) != lookup.end()
lookup_contains(r, name) == \E e \in r.lookup : e.key = name

\* it->second of lookup.find(name)
lookup_at(r, name) == (CHOOSE e \in r.lookup : e.key = name).value

\* lookup.emplace(name, parsed_options.size()): the map afterwards
lookup_emplace(r, name) ==
    IF lookup_contains(r, name) THEN r.lookup
    ELSE r.lookup \cup {[key |-> name, value |-> Len(r.parsed_options)]}

\* count_occurrence with the increment inside `if (inserted)`
count_occurrence_when_inserted(r, name) ==
    LET inserted == ~lookup_contains(r, name)
        lk == lookup_emplace(r, name)
        po == IF inserted THEN Append(r.parsed_options, ParsedOption(name))
              ELSE r.parsed_options
        i  == (CHOOSE e \in lk : e.key = name).value + 1
    IN  [r EXCEPT !.lookup = lk,
                  !.parsed_options =
                      IF inserted
                      THEN [po EXCEPT ![i].count = po[i].count + 1]
                      ELSE po]

\* count_occurrence that appends a ParsedOption whether or not the name was
\* inserted into lookup
count_occurrence_always_append(r, name) ==
    LET lk == lookup_emplace(r, name)
        po == Append(r.parsed_options, ParsedOption(name))
        i  == (CHOOSE e \in lk : e.key = name).value + 1
    IN  [r EXCEPT !.lookup = lk,
                  !.parsed_options =
                      [po EXCEPT ![i].count = po[i].count + 1]]

\* lines 165-171 shared by both overloads: emplace into lookup, append a new
\* ParsedOption when inserted, increment the count of entry it->second
count_occurrence(r, name) ==
    LET inserted == ~lookup_contains(r, name)
        lk == lookup_emplace(r, name)
        po == IF inserted THEN Append(r.parsed_options, ParsedOption(name))
              ELSE r.parsed_options
        i  == (CHOOSE e \in lk : e.key = name).value + 1
    IN  [r EXCEPT !.lookup = lk,
                  !.parsed_options =
                      [po EXCEPT ![i].count = po[i].count + 1]]

\* ParseResult::add_parsed_option(name)
add_parsed_option(r, name) == count_occurrence(r, name)

\* ParseResult::add_parsed_option(name, argument)
add_parsed_option_argument(r, name, argument) ==
    LET c == count_occurrence(r, name)
        i == lookup_at(c, name) + 1
    IN  [c EXCEPT !.parsed_options[i].arguments = Append(@, argument)]

\* ParseResult::add_positional_argument
add_positional_argument(r, argument) ==
    [r EXCEPT !.positional_args = Append(@, argument)]

\* add_positional_arguments that puts the range in the place of the
\* positional arguments recorded so far
add_positional_arguments_replace(r, range) ==
    [r EXCEPT !.positional_args = range]

\* ParseResult::add_positional_arguments(first, last) for the range `range`
add_positional_arguments(r, range) ==
    [r EXCEPT !.positional_args = @ \o range]

\* count that reads the entry through lookup[name], which yields index 0 for
\* a name that is not in lookup
count_subscript(r, name) ==
    IF lookup_contains(r, name)
    THEN r.parsed_options[lookup_at(r, name) + 1].count
    ELSE IF r.parsed_options # <<>>
    THEN r.parsed_options[1].count
    ELSE 0

\* ParseResult::count
count(r, name) ==
    IF lookup_contains(r, name)
    THEN r.parsed_options[lookup_at(r, name) + 1].count
    ELSE 0

\* the absent std::optional
nullopt == [has_value |-> FALSE]

\* get_last_argument_for_option that returns arguments.front()
get_last_argument_for_option_front(r, name) ==
    IF /\ lookup_contains(r, name)
       /\ r.parsed_options[lookup_at(r, name) + 1].arguments # <<>>
    THEN LET a == r.parsed_options[lookup_at(r, name) + 1].arguments
         IN  [has_value |-> TRUE, value |-> a[1]]
    ELSE nullopt

\* ParseResult::get_last_argument_for_option
get_last_argument_for_option(r, name) ==
    IF /\ lookup_contains(r, name)
       /\ r.parsed_options[lookup_at(r, name) + 1].arguments # <<>>
    THEN LET a == r.parsed_options[lookup_at(r, name) + 1].arguments
         IN  [has_value |-> TRUE, value |-> a[Len(a)]]
    ELSE nullopt

\* ParseResult::get_arguments_for_option
get_arguments_for_option(r, name) ==
    IF lookup_contains(r, name)
    THEN r.parsed_options[lookup_at(r, name) + 1].arguments
    ELSE <<>>

\* the ParseResult r after count(name), get_last_argument_for_option(name) and
\* get_arguments_for_option(name): const member functions, which read lookup
\* through find and modify nothing
lookups(r, name) == r

\* ParseResult::get_parsed_options
get_parsed_options(r) == r.parsed_options

\* ParseResult::get_positional_arguments
get_positional_arguments(r) == r.positional_args

----------------------------------------------------------------------------
(* Parsing engine: OptionParser::parse and OptionParser::parse_argv *)

\* std::unexpected<ParseError>(std::in_place, originating_arg, what)
unexpected(originating_arg, what) ==
    [has_value |-> FALSE,
     error |-> [originating_arg |-> originating_arg, what |-> what]]

\* the std::expected holding the ParseResult r
expected(r) == [has_value |-> TRUE, value |-> r]

\* no std::expected has been returned yet
NoResult == [pending |-> TRUE]

\* there is no second call
NoCall == [none |-> TRUE]

\* the caller has called neither convert_to nor get_option_help
Idle == [idle |-> TRUE]

\* *it for the iterator at 0-based index i of av
deref(av, i) == av[i + 1]

\* range that starts one element early
range_from_before(av, f, l) == SubSeq(av, f, l)

\* the range [f, l) of av as a sequence
range(av, f, l) == SubSeq(av, f + 1, l)

\* outcome of one pass through the body of the for loop of parse: either the
\* function returns v, leaving its locals first and res at f and r, or the
\* body ends with `continue`/`break` out of the inner loop and leaves first,
\* idx and res at f, i and r for the loop increment
return(v, f, r) == [ret |-> TRUE, result |-> v, first |-> f, res |-> r]
continue(f, i, r) == [ret |-> FALSE, first |-> f, idx |-> i, res |-> r]

\* long_option with the argument of a required-argument option read before
\* the iterator is advanced
long_option_stale_argument(opts, av, f, l, i, r) ==
    IF deref(av, f) = <<"-", "-">>
    THEN return(expected(add_positional_arguments(r, range(av, f + 1, l))),
                f + 1, add_positional_arguments(r, range(av, f + 1, l)))
    ELSE
    LET arg      == remove_prefix(deref(av, f), 2)
        name_end == find(arg, "=")
        name     == substr(arg, 0, name_end)
        it       == find_long_option(opts, name)
    IN  IF it = end(opts)
        THEN return(unexpected(i,
                 format(<<"unrecognized long option '--", name, "'">>)), f, r)
        ELSE IF name_end # npos
        THEN IF ~takes_argument(opts[it])
             THEN return(unexpected(i,
                      format(<<"extraneous argument in '--", arg, "'">>)), f, r)
             ELSE continue(f, i, add_parsed_option_argument(r, name,
                                     substr(arg, name_end + 1, npos)))
        ELSE IF requires_argument(opts[it])
        THEN IF f + 1 = l
             THEN return(unexpected(i,
                      format(<<"missing required argument for '--", arg, "'">>)),
                      f + 1, r)
             ELSE continue(f + 1, i + 1,
                      add_parsed_option_argument(r, name, deref(av, f)))
        ELSE continue(f, i, add_parsed_option(r, name))

\* long_option that takes "--name=" with nothing behind "=" as the option
\* given without argument
long_option_empty_value_is_bare(opts, av, f, l, i, r) ==
    IF deref(av, f) = <<"-", "-">>
    THEN return(expected(add_positional_arguments(r, range(av, f + 1, l))),
                f + 1, add_positional_arguments(r, range(av, f + 1, l)))
    ELSE
    LET arg      == remove_prefix(deref(av, f), 2)
        name_end == find(arg, "=")
        name     == substr(arg, 0, name_end)
        it       == find_long_option(opts, name)
    IN  IF it = end(opts)
        THEN return(unexpected(i,
                 format(<<"unrecognized long option '--", name, "'">>)), f, r)
        ELSE IF name_end # npos /\ substr(arg, name_end + 1, npos) # <<>>
        THEN IF ~takes_argument(opts[it])
             THEN return(unexpected(i,
                      format(<<"extraneous argument in '--", arg, "'">>)), f, r)
             ELSE continue(f, i, add_parsed_option_argument(r, name,
                                     substr(arg, name_end + 1, npos)))
        ELSE IF requires_argument(opts[it])
        THEN IF f + 1 = l
             THEN return(unexpected(i,
                      format(<<"missing required argument for '--", arg, "'">>)),
                      f + 1, r)
             ELSE continue(f + 1, i + 1,
                      add_parsed_option_argument(r, name, deref(av, f + 1)))
        ELSE continue(f, i, add_parsed_option(r, name))

\* lines 401-457: the element at f starts with "--"
long_option(opts, av, f, l, i, r) ==
    IF deref(av, f) = <<"-", "-">>
    THEN return(expected(add_positional_arguments(r, range(av, f + 1, l))),
                f + 1, add_positional_arguments(r, range(av, f + 1, l)))
    ELSE
    LET arg      == remove_prefix(deref(av, f), 2)
        name_end == find(arg, "=")
        name     == substr(arg, 0, name_end)
        it       == find_long_option(opts, name)
    IN  IF it = end(opts)
        THEN return(unexpected(i,
                 format(<<"unrecognized long option '--", name, "'">>)), f, r)
        ELSE IF name_end # npos
        THEN IF ~takes_argument(opts[it])
             THEN return(unexpected(i,
                      format(<<"extraneous argument in '--", arg, "'">>)), f, r)
             ELSE continue(f, i, add_parsed_option_argument(r, name,
                                     substr(arg, name_end + 1, npos)))
        ELSE IF requires_argument(opts[it])
        THEN IF f + 1 = l
             THEN return(unexpected(i,
                      format(<<"missing required argument for '--", arg, "'">>)),
                      f + 1, r)
             ELSE continue(f + 1, i + 1,
                      add_parsed_option_argument(r, name, deref(av, f + 1)))
        ELSE continue(f, i, add_parsed_option(r, name))

RECURSIVE short_options_skip_unrecognized(_, _, _, _, _, _, _, _)
\* short_options that passes over a character that is no declared flag
short_options_skip_unrecognized(opts, av, f, l, i, r, arg, pos) ==
    IF ~(pos < size(arg))
    THEN continue(f, i, r)
    ELSE
    LET flag == substr(arg, pos, 1)
        it   == find_short_option(opts, flag)
    IN  IF it = end(opts)
        THEN short_options_skip_unrecognized(opts, av, f, l, i, r, arg, pos + 1)
        ELSE IF ~takes_argument(opts[it])
        THEN short_options_skip_unrecognized(opts, av, f, l, i,
                 add_parsed_option(r, opts[it].long_flag), arg, pos + 1)
        ELSE IF pos + 1 < size(arg)
        THEN continue(f, i, add_parsed_option_argument(r, opts[it].long_flag,
                                substr(arg, pos + 1, npos)))
        ELSE IF ~requires_argument(opts[it])
        THEN continue(f, i, add_parsed_option(r, opts[it].long_flag))
        ELSE IF f + 1 = l
        THEN return(unexpected(i,
                 format(<<"missing required argument for '", flag,
                          "' in '-", arg, "'">>)), f + 1, r)
        ELSE continue(f + 1, i + 1,
                 add_parsed_option_argument(r, opts[it].long_flag,
                                            deref(av, f + 1)))

RECURSIVE short_options_argument_with_flag(_, _, _, _, _, _, _, _)
\* short_options whose inline argument starts at the flag character
short_options_argument_with_flag(opts, av, f, l, i, r, arg, pos) ==
    IF ~(pos < size(arg))
    THEN continue(f, i, r)
    ELSE
    LET flag == substr(arg, pos, 1)
        it   == find_short_option(opts, flag)
    IN  IF it = end(opts)
        THEN return(unexpected(i,
                 format(<<"unrecognized short option '", flag,
                          "' in '-", arg, "'">>)), f, r)
        ELSE IF ~takes_argument(opts[it])
        THEN short_options_argument_with_flag(opts, av, f, l, i,
                 add_parsed_option(r, opts[it].long_flag), arg, pos + 1)
        ELSE IF pos + 1 < size(arg)
        THEN continue(f, i, add_parsed_option_argument(r, opts[it].long_flag,
                                substr(arg, pos, npos)))
        ELSE IF ~requires_argument(opts[it])
        THEN continue(f, i, add_parsed_option(r, opts[it].long_flag))
        ELSE IF f + 1 = l
        THEN return(unexpected(i,
                 format(<<"missing required argument for '", flag,
                          "' in '-", arg, "'">>)), f + 1, r)
        ELSE continue(f + 1, i + 1,
                 add_parsed_option_argument(r, opts[it].long_flag,
                                            deref(av, f + 1)))

\* short_options that leaves the inner loop after a flag without argument
\* (`break` for the `continue` of line 476)
short_options_break_after_flag(opts, av, f, l, i, r, arg, pos) ==
    IF ~(pos < size(arg))
    THEN continue(f, i, r)
    ELSE
    LET flag == substr(arg, pos, 1)
        it   == find_short_option(opts, flag)
    IN  IF it = end(opts)
        THEN return(unexpected(i,
                 format(<<"unrecognized short option '", flag,
                          "' in '-", arg, "'">>)), f, r)
        ELSE IF ~takes_argument(opts[it])
        THEN continue(f, i, add_parsed_option(r, opts[it].long_flag))
        ELSE IF pos + 1 < size(arg)
        THEN continue(f, i, add_parsed_option_argument(r, opts[it].long_flag,
                                substr(arg, pos + 1, npos)))
        ELSE IF ~requires_argument(opts[it])
        THEN continue(f, i, add_parsed_option(r, opts[it].long_flag))
        ELSE IF f + 1 = l
        THEN return(unexpected(i,
                 format(<<"missing required argument for '", flag,
                          "' in '-", arg, "'">>)), f + 1, r)
        ELSE continue(f + 1, i + 1,
                 add_parsed_option_argument(r, opts[it].long_flag,
                                            deref(av, f + 1)))

RECURSIVE short_options_bare_at_end(_, _, _, _, _, _, _, _)
\* short_options that records an occurrence without argument when the
\* element that should hold the required argument does not exist
short_options_bare_at_end(opts, av, f, l, i, r, arg, pos) ==
    IF ~(pos < size(arg))
    THEN continue(f, i, r)
    ELSE
    LET flag == substr(arg, pos, 1)
        it   == find_short_option(opts, flag)
    IN  IF it = end(opts)
        THEN return(unexpected(i,
                 format(<<"unrecognized short option '", flag,
                          "' in '-", arg, "'">>)), f, r)
        ELSE IF ~takes_argument(opts[it])
        THEN short_options_bare_at_end(opts, av, f, l, i,
                 add_parsed_option(r, opts[it].long_flag), arg, pos + 1)
        ELSE IF pos + 1 < size(arg)
        THEN continue(f, i, add_parsed_option_argument(r, opts[it].long_flag,
                                substr(arg, pos + 1, npos)))
        ELSE IF ~requires_argument(opts[it])
        THEN continue(f, i, add_parsed_option(r, opts[it].long_flag))
        ELSE IF f + 1 = l
        THEN continue(f, i, add_parsed_option(r, opts[it].long_flag))
        ELSE continue(f + 1, i + 1,
                 add_parsed_option_argument(r, opts[it].long_flag,
                                            deref(av, f + 1)))

RECURSIVE short_options_record_flag(_, _, _, _, _, _, _, _)
\* short_options that records an occurrence under the flag as it was given
\* instead of under the long flag of the option found
short_options_record_flag(opts, av, f, l, i, r, arg, pos) ==
    IF ~(pos < size(arg))
    THEN continue(f, i, r)
    ELSE
    LET flag == substr(arg, pos, 1)
        it   == find_short_option(opts, flag)
    IN  IF it = end(opts)
        THEN return(unexpected(i,
                 format(<<"unrecognized short option '", flag,
                          "' in '-", arg, "'">>)), f, r)
        ELSE IF ~takes_argument(opts[it])
        THEN short_options_record_flag(opts, av, f, l, i,
                 add_parsed_option(r, flag), arg, pos + 1)
        ELSE IF pos + 1 < size(arg)
        THEN continue(f, i, add_parsed_option_argument(r, flag,
                                substr(arg, pos + 1, npos)))
        ELSE IF ~requires_argument(opts[it])
        THEN continue(f, i, add_parsed_option(r, flag))
        ELSE IF f + 1 = l
        THEN return(unexpected(i,
                 format(<<"missing required argument for '", flag,
                          "' in '-", arg, "'">>)), f + 1, r)
        ELSE continue(f + 1, i + 1,
                 add_parsed_option_argument(r, flag, deref(av, f + 1)))

RECURSIVE short_options(_, _, _, _, _, _, _, _)
\* lines 462-506: the inner loop over the cluster arg, from position pos on
short_options(opts, av, f, l, i, r, arg, pos) ==
    IF ~(pos < size(arg))
    THEN continue(f, i, r)
    ELSE
    LET flag == substr(arg, pos, 1)
        it   == find_short_option(opts, flag)
    IN  IF it = end(opts)
        THEN return(unexpected(i,
                 format(<<"unrecognized short option '", flag,
                          "' in '-", arg, "'">>)), f, r)
        ELSE IF ~takes_argument(opts[it])
        THEN short_options(opts, av, f, l, i,
                 add_parsed_option(r, opts[it].long_flag), arg, pos + 1)
        ELSE IF pos + 1 < size(arg)
        THEN continue(f, i, add_parsed_option_argument(r, opts[it].long_flag,
                                substr(arg, pos + 1, npos)))
        ELSE IF ~requires_argument(opts[it])
        THEN continue(f, i, add_parsed_option(r, opts[it].long_flag))
        ELSE IF f + 1 = l
        THEN return(unexpected(i,
                 format(<<"missing required argument for '", flag,
                          "' in '-", arg, "'">>)), f + 1, r)
        ELSE continue(f + 1, i + 1,
                 add_parsed_option_argument(r, opts[it].long_flag,
                                            deref(av, f + 1)))

\* lines 393-398: the element is a nonoption element
is_nonoption(arg) == ~starts_with(arg, <<"-">>) \/ arg = <<"-">>

\* loop_body that ends option parsing at the first nonoption element and
\* returns it and everything behind it as positional arguments
loop_body_stop_at_nonoption(opts, av, f, l, i, r) ==
    LET arg == deref(av, f)
    IN  IF is_nonoption(arg)
        THEN return(expected(add_positional_arguments(r, range(av, f, l))),
                    f, add_positional_arguments(r, range(av, f, l)))
        ELSE IF starts_with(arg, <<"-", "-">>)
        THEN long_option(opts, av, f, l, i, r)
        ELSE short_options(opts, av, f, l, i, r, remove_prefix(arg, 1), 0)

\* lines 391-506: the body of the for loop for the element at f
loop_body(opts, av, f, l, i, r) ==
    LET arg == deref(av, f)
    IN  IF is_nonoption(arg)
        THEN continue(f, i, add_positional_argument(r, arg))
        ELSE IF starts_with(arg, <<"-", "-">>)
        THEN long_option(opts, av, f, l, i, r)
        ELSE short_options(opts, av, f, l, i, r, remove_prefix(arg, 1), 0)

RECURSIVE parse(_, _, _, _, _, _)
\* lines 387-510: what parse returns when it runs from the loop condition on
\* with first, idx and res at f, i and r, nothing else running
parse(opts, av, f, l, i, r) ==
    IF f = l THEN expected(r)
    ELSE LET out == loop_body(opts, av, f, l, i, r)
         IN  IF out.ret THEN out.result
             ELSE parse(opts, av, out.first + 1, l, out.idx + 1, out.res)

----------------------------------------------------------------------------
(* Help text: detail::word_wrap and OptionParser::get_option_help *)

\* std::find_if(sv.begin() + pos, sv.end(), is_space) when space is TRUE and
\* std::find_if_not of the same when it is FALSE, as a 0-based position;
\* size(sv) for sv.end()
find_if(sv, pos, space) ==
    LET hits == { i \in pos..(size(sv) - 1) : (sv[i + 1] = " ") = space }
    IN  IF hits = {} THEN size(sv)
        ELSE CHOOSE i \in hits : \A j \in hits : i <= j

RECURSIVE word_wrap_loop(_, _, _, _, _)
\* detail::word_wrap from the test of its while loop on: lines 71-88
word_wrap_loop(sv, width, line_start, space_begin, lines) ==
    IF space_begin # size(sv)
    THEN LET space_end        == find_if(sv, space_begin, FALSE)
             next_space_begin == find_if(sv, space_end, TRUE)
         IN  IF next_space_begin - line_start > width
             THEN word_wrap_loop(sv, width, space_end, next_space_begin,
                                 Append(lines,
                                        SubSeq(sv, line_start + 1,
                                               space_begin)))
             ELSE word_wrap_loop(sv, width, line_start, next_space_begin,
                                 lines)
    ELSE IF line_start # size(sv)
    THEN Append(lines, SubSeq(sv, line_start + 1, size(sv)))
    ELSE lines

\* word_wrap that does not skip the leading space
word_wrap_unskipped(sv, width) ==
    word_wrap_loop(sv, width, 0, find_if(sv, 0, TRUE), <<>>)

\* detail::word_wrap(sv, width): the lines as a sequence of strings
word_wrap(sv, width) ==
    LET line_start == find_if(sv, 0, FALSE)
    IN  word_wrap_loop(sv, width, line_start, find_if(sv, line_start, TRUE),
                       <<>>)

\* get_option_help: the limit of the length of the flags part
flags_len_limit == 29

\* get_option_help, max_flags_length: lines 297-313
max_flags_length(opts) ==
    LET len(k) == 8 + size(opts[k].long_flag) + size(opts[k].arg_name) + 2
    IN  IF opts = <<>> THEN 0
        ELSE CHOOSE n \in { len(k) : k \in 1..Len(opts) } :
                \A k \in 1..Len(opts) : len(k) <= n

\* n spaces
spaces(n) == [i \in 1..n |-> " "]

RECURSIVE append_all(_, _)
\* the string `to` with the strings of the sequence appended in order
append_all(to, strings) ==
    IF strings = <<>> THEN to
    ELSE append_all(to \o strings[1], SubSeq(strings, 2, Len(strings)))

\* get_option_help, the body of the loop over the options: the option_line
\* appended to help for the option, lines 324-377
option_line(option, flags_len, line_width) ==
    LET short == IF option.short_flag = <<>> THEN <<" ", " ", " ", " ">>
                 ELSE <<" ", " ", "-">> \o option.short_flag
        long  == IF /\ option.long_flag # <<>>
                    /\ option.long_flag # option.short_flag
                 THEN short
                      \o (IF option.short_flag # <<>> THEN <<",", " ">>
                          ELSE <<" ", " ">>)
                      \o <<"-", "-">> \o option.long_flag
                 ELSE short
        flags == long \o option.arg_name
        fits  == ~(size(flags) + 2 > flags_len)
        first_line    == IF fits THEN flags ELSE flags \o <<"\n">>
        leading_space == IF fits THEN flags_len - size(flags) ELSE flags_len
    IN  IF line_width # 0
        THEN LET wrapped == word_wrap(option.description,
                                      line_width - flags_len)
             IN  append_all(first_line,
                            [k \in 1..Len(wrapped) |->
                               spaces(IF k = 1 THEN leading_space
                                      ELSE flags_len)
                               \o wrapped[k] \o <<"\n">>])
        ELSE first_line \o spaces(leading_space) \o option.description
             \o <<"\n">>

\* get_option_help that leaves line_width as it was given
get_option_help_unadjusted(opts, line_width) ==
    LET flags_len == Min(flags_len_limit, max_flags_length(opts))
        lines     == [k \in 1..Len(opts) |->
                        option_line(opts[k], flags_len, line_width)]
    IN  [flags_len |-> flags_len, line_width |-> line_width,
         option_lines |-> lines, help |-> append_all(<<>>, lines)]

\* OptionParser::get_option_help(line_width): the string it returns, with
\* the values of its locals flags_len and line_width and the option_line of
\* every option
get_option_help(opts, line_width) ==
    LET flags_len == Min(flags_len_limit, max_flags_length(opts))
        adjusted  == IF line_width # 0 /\ line_width < flags_len
                     THEN flags_len ELSE line_width
        lines     == [k \in 1..Len(opts) |->
                        option_line(opts[k], flags_len, adjusted)]
    IN  [flags_len |-> flags_len, line_width |-> adjusted,
         option_lines |-> lines, help |-> append_all(<<>>, lines)]

----------------------------------------------------------------------------
(* String conversion: detail::iequal and convert_to *)

\* the characters with the codes 32 to 126, in the order of their codes (the
\* grave accent, code 96, cannot be written in a string and is spelled out)
Ascii ==
    << " ", "!", "\"", "#", "$", "%", "&", "'", "(", ")", "*", "+",
       ",", "-", ".", "/", "0", "1", "2", "3", "4", "5", "6", "7",
       "8", "9", ":", ";", "<", "=", ">", "?", "@", "A", "B", "C",
       "D", "E", "F", "G", "H", "I", "J", "K", "L", "M", "N", "O",
       "P", "Q", "R", "S", "T", "U", "V", "W", "X", "Y", "Z", "[",
       "\\", "]", "^", "_", "grave", "a", "b", "c", "d", "e", "f", "g",
       "h", "i", "j", "k", "l", "m", "n", "o", "p", "q", "r", "s",
       "t", "u", "v", "w", "x", "y", "z", "{", "|", "}", "~" >>

\* the code of the character ch
ord(ch) == 31 + CHOOSE k \in 1..Len(Ascii) : Ascii[k] = ch

\* detail::iequal, tolower: an upper-case letter as its lower-case letter,
\* every other character as it is
tolower(ch) ==
    IF ord(ch) >= ord("A") /\ ord(ch) <= ord("Z")
    THEN Ascii[ord(ch) - ord("A") + ord("a") - 31]
    ELSE ch

\* the std::errc values convert_to returns
invalid_argument == "invalid_argument"
result_out_of_range == "result_out_of_range"

\* std::unexpected(ec) as a std::expected<T, std::errc>
unexpected_errc(ec) == [has_value |-> FALSE, error |-> ec]

\* the integral types T convert_to is instantiated with
int8_t == [signed |-> TRUE, bits |-> 8]
uint8_t == [signed |-> FALSE, bits |-> 8]
int16_t == [signed |-> TRUE, bits |-> 16]
uint16_t == [signed |-> FALSE, bits |-> 16]

\* std::numeric_limits<T>::max() and std::numeric_limits<UT>::max() for the
\* unsigned type UT corresponding to T
numeric_limits_max(T) ==
    IF T.signed THEN 2 ^ (T.bits - 1) - 1 ELSE 2 ^ T.bits - 1
unsigned_max(T) == 2 ^ T.bits - 1

\* the conversion to T that keeps the value as it is
static_cast_unconverted(T, x) == x

\* static_cast<T>(x): x modulo 2^bits, as a value of T
static_cast(T, x) ==
    LET m == x % (2 ^ T.bits)
    IN  IF T.signed /\ m > numeric_limits_max(T) THEN m - 2 ^ T.bits ELSE m

\* the value std::from_chars gives the character ch as a digit: 0-9, then
\* a-z and A-Z as 10-35; 36 for a character that is no digit in any base
digit_value(ch) ==
    LET c == ord(ch)
    IN  IF c >= ord("0") /\ c <= ord("9") THEN c - ord("0")
        ELSE IF c >= ord("a") /\ c <= ord("z") THEN c - ord("a") + 10
        ELSE IF c >= ord("A") /\ c <= ord("Z") THEN c - ord("A") + 10
        ELSE 36

RECURSIVE digits_end(_, _, _)
\* std::from_chars: the 0-based position behind the longest run of digits of
\* the base that starts at position pos of sv
digits_end(sv, pos, base) ==
    IF pos < size(sv) /\ digit_value(sv[pos + 1]) < base
    THEN digits_end(sv, pos + 1, base)
    ELSE pos

RECURSIVE digits_value(_, _, _, _)
\* std::from_chars: the value of the first n characters of sv as digits of
\* the base, or max + 1 as soon as it exceeds max
digits_value(sv, n, base, max) ==
    IF n = 0 THEN 0
    ELSE LET high == digits_value(sv, n - 1, base, max)
         IN  Min(high * base + digit_value(sv[n]), max + 1)

\* std::from_chars(sv.data(), sv.data() + sv.size(), res, base) for an
\* unsigned res of the width of T: ptr as a 0-based position in sv, ec
\* ("" for std::errc()), and the value stored in res
from_chars(sv, T, base) ==
    LET ptr   == digits_end(sv, 0, base)
        value == digits_value(sv, ptr, base, unsigned_max(T))
    IN  IF ptr = 0
        THEN [ptr |-> 0, ec |-> invalid_argument, res |-> 0]
        ELSE IF value > unsigned_max(T)
        THEN [ptr |-> ptr, ec |-> result_out_of_range, res |-> 0]
        ELSE [ptr |-> ptr, ec |-> "", res |-> value]

\* the base detection that takes every leading `0` as the octal prefix, one
\* that is the whole text included
resolve_base_octal_zero(sv, base) ==
    IF base = 0
    THEN IF starts_with(sv, <<"0">>)
         THEN IF size(sv) > 1 /\ sv[2] \in {"x", "X"}
              THEN [sv |-> remove_prefix(sv, 2), base |-> 16]
              ELSE IF size(sv) > 1 /\ sv[2] \in {"b", "B"}
              THEN [sv |-> remove_prefix(sv, 2), base |-> 2]
              ELSE [sv |-> remove_prefix(sv, 1), base |-> 8]
         ELSE [sv |-> sv, base |-> 10]
    ELSE IF /\ base \in {2, 16}
            /\ size(sv) > 1
            /\ sv[1] = "0"
            /\ sv[2] \in (IF base = 16 THEN {"x", "X"} ELSE {"b", "B"})
    THEN [sv |-> remove_prefix(sv, 2), base |-> base]
    ELSE [sv |-> sv, base |-> base]

\* lines 569-595: sv and base behind the removal of the prefix of an
\* explicit base 16 or 2 and the detection of the base when base is 0
resolve_base(sv, base) ==
    LET sv16 == IF /\ base = 16
                   /\ \/ starts_with(sv, <<"0", "x">>)
                      \/ starts_with(sv, <<"0", "X">>)
                THEN remove_prefix(sv, 2) ELSE sv
        sv2  == IF /\ base = 2
                   /\ \/ starts_with(sv16, <<"0", "b">>)
                      \/ starts_with(sv16, <<"0", "B">>)
                THEN remove_prefix(sv16, 2) ELSE sv16
    IN  IF base = 0
        THEN IF starts_with(sv2, <<"0">>) /\ size(sv2) > 1
             THEN IF sv2[2] \in {"x", "X"}
                  THEN [sv |-> remove_prefix(sv2, 2), base |-> 16]
                  ELSE IF sv2[2] \in {"b", "B"}
                  THEN [sv |-> remove_prefix(sv2, 2), base |-> 2]
                  ELSE [sv |-> remove_prefix(sv2, 1), base |-> 8]
             ELSE [sv |-> sv2, base |-> 10]
        ELSE [sv |-> sv2, base |-> base]

\* the range check without the extra magnitude a negative value may have
range_and_negate_symmetric(T, negative, ures) ==
    IF T.signed /\ ures > numeric_limits_max(T)
    THEN unexpected_errc(result_out_of_range)
    ELSE expected(static_cast(T, IF negative THEN 0 - ures ELSE ures))

\* the range check and the sign without the negation
range_and_negate_unnegated(T, negative, ures) ==
    IF T.signed /\ ures > numeric_limits_max(T) + (IF negative THEN 1 ELSE 0)
    THEN unexpected_errc(result_out_of_range)
    ELSE expected(static_cast(T, ures))

\* lines 612-621: the range check of a signed T and the negation
range_and_negate(T, negative, ures) ==
    IF T.signed /\ ures > numeric_limits_max(T) + (IF negative THEN 1 ELSE 0)
    THEN unexpected_errc(result_out_of_range)
    ELSE expected(static_cast(T, IF negative THEN 0 - ures ELSE ures))

\* convert_to<T>(sv, base) for an integral type T other than bool
convert_to(T, sv, base) ==
    LET negative == starts_with(sv, <<"-">>)
        unsigned == IF negative THEN remove_prefix(sv, 1) ELSE sv
        resolved == resolve_base(unsigned, base)
        fc       == from_chars(resolved.sv, T, resolved.base)
    IN  IF fc.ec # ""
        THEN unexpected_errc(fc.ec)
        ELSE IF fc.ptr # size(resolved.sv)
        THEN unexpected_errc(invalid_argument)
        ELSE range_and_negate(T, negative, fc.res)

RECURSIVE kilo_power(_, _, _)
\* kilo multiplied n times with itself, or max + 1 as soon as it exceeds max
kilo_power(kilo, n, max) ==
    IF n = 0 THEN 1 ELSE Min(kilo_power(kilo, n - 1, max) * kilo, max + 1)

\* the multiplier of the suffix character ch in the mode ("decimal" or
\* "binary"), or max + 1 if it exceeds max: k, m, g, t, p, e in either case
\* are 10^3 .. 10^18 or 2^10 .. 2^60; 0 for a character that is no suffix
kilo_multiplier(mode, ch, max) ==
    LET suffixes == << "k", "m", "g", "t", "p", "e" >>
    IN  IF \E n \in 1..6 : suffixes[n] = tolower(ch)
        THEN kilo_power(IF mode = "binary" THEN 1024 ELSE 1000,
                        CHOOSE n \in 1..6 : suffixes[n] = tolower(ch), max)
        ELSE 0

\* convert_to<T, KiloMultiplier>(sv, base) for an integral T: as convert_to,
\* with one suffix character behind the digits that scales the magnitude
\* before the range check
convert_to_suffix(T, mode, sv, base) ==
    LET negative == starts_with(sv, <<"-">>)
        unsigned == IF negative THEN remove_prefix(sv, 1) ELSE sv
        resolved == resolve_base(unsigned, base)
        fc       == from_chars(resolved.sv, T, resolved.base)
        rest     == size(resolved.sv) - fc.ptr
        scale    == IF rest = 1
                    THEN kilo_multiplier(mode, resolved.sv[fc.ptr + 1],
                                         unsigned_max(T))
                    ELSE 0
    IN  IF fc.ec # ""
        THEN unexpected_errc(fc.ec)
        ELSE IF rest = 0
        THEN range_and_negate(T, negative, fc.res)
        ELSE IF scale = 0
        THEN unexpected_errc(invalid_argument)
        ELSE IF fc.res * scale > unsigned_max(T)
        THEN unexpected_errc(result_out_of_range)
        ELSE range_and_negate(T, negative, fc.res * scale)

\* equality of the characters before the end of the shorter string only
iequal_prefix(lhs, rhs) ==
    /\ size(lhs) <= size(rhs)
    /\ \A i \in 1..size(lhs) : tolower(lhs[i]) = tolower(rhs[i])

\* detail::iequal(lhs, rhs): std::ranges::equal under tolower
iequal(lhs, rhs) ==
    /\ size(lhs) = size(rhs)
    /\ \A i \in 1..size(lhs) : tolower(lhs[i]) = tolower(rhs[i])

\* convert_to<bool>(sv)
convert_to_bool(sv) ==
    IF \/ iequal(sv, <<"y", "e", "s">>)
       \/ iequal(sv, <<"t", "r", "u", "e">>)
       \/ iequal(sv, <<"o", "n">>)
       \/ iequal(sv, <<"1">>)
    THEN expected(TRUE)
    ELSE IF \/ iequal(sv, <<"n", "o">>)
            \/ iequal(sv, <<"f", "a", "l", "s", "e">>)
            \/ iequal(sv, <<"o", "f", "f">>)
            \/ iequal(sv, <<"0">>)
    THEN expected(FALSE)
    ELSE unexpected_errc(invalid_argument)

----------------------------------------------------------------------------
(* Inputs *)

\* the elements argument lists are made of
Elements ==
    { <<"a">>,                                   \* a
      <<"-">>,                                   \* -
      <<"-", "-">>,                              \* --
      <<"-", "v", "n">>,                         \* -vn
      <<"-", "n", "v", "n">>,                    \* -nvn
      <<"-", "n", "o">>,                         \* -no
      <<"-", "o", "u">>,                         \* -ou
      <<"-", "n", "r">>,                         \* -nr
      <<"-", "r", "n">>,                         \* -rn
      <<"-", "u">>,                              \* -u
      <<"-", "n", "u", "q">>,                    \* -nuq
      <<"-", "-", "n", "o", "a", "r", "g">>,     \* --noarg
      <<"-", "-", "o", "p", "t", "a", "r", "g">>,            \* --optarg
      <<"-", "-", "o", "p", "t", "a", "r", "g", "=", "a">>,  \* --optarg=a
      <<"-", "-", "r", "e", "q", "a", "r", "g">>,            \* --reqarg
      <<"-", "-", "n", "o", "a", "r", "g", "=", "a">>,       \* --noarg=a
      <<"-", "-", "u">> }                        \* --u

\* the elements of the argument lists that exercise the names and the
\* inline values of long option elements and the forms of nonoption elements
NameElements ==
    { <<"a">>,                                                 \* a
      <<>>,                                                    \* (empty)
      <<"-">>,                                                 \* -
      <<"-", "-">>,                                            \* --
      <<"-", "n">>,                                            \* -n
      <<"-", "-", "n", "o", "a", "r", "g">>,                   \* --noarg
      <<"-", "-", "n", "o", "a", "r", "g", "=">>,              \* --noarg=
      <<"-", "-", "n", "o", "a", "r", "g", "=", "a">>,         \* --noarg=a
      <<"-", "-", "n", "o", "a", "r">>,                        \* --noar
      <<"-", "-", "n", "o", "a", "r", "=", "a">>,              \* --noar=a
      <<"-", "-", "n", "o", "a", "r", "g", "s">>,              \* --noargs
      <<"-", "-", "N", "o", "a", "r", "g">>,                   \* --Noarg
      <<"-", "-", "n">>,                                       \* --n
      <<"-", "-", "=", "a">>,                                  \* --=a
      <<"-", "-", "r", "e", "q", "a", "r", "g", "=">>,         \* --reqarg=
      <<"-", "-", "o", "p", "t", "a", "r", "g", "=", "=">> }   \* --optarg==

\* the program names argv[0] is drawn from: one that reads like a flag
ProgramNames == { <<"-", "u">> }

\* the program names of the calls on NameElements: an undeclared flag, the
\* terminator, a declared flag
NameProgramNames == { <<"-", "u">>, <<"-", "-">>, <<"-", "n">> }

\* the option names and the arguments of direct add_parsed_option calls, the
\* arguments of direct add_positional_argument calls
CallNames == { <<"n", "o", "a", "r", "g">>, <<"x">>, <<>> }
CallArguments == { <<"a">>, <<>> }

\* the names the caller looks up in a returned ParseResult: the long and the
\* short flags of the declarations, these with their dashes, the empty name,
\* a name never declared, and the text of a positional argument or value
LookupNames ==
    { Declarations[k].long_flag : k \in 1..Len(Declarations) }
    \cup { Declarations[k].short_flag : k \in 1..Len(Declarations) }
    \cup { <<"-", "-">> \o Declarations[k].long_flag :
              k \in 1..Len(Declarations) }
    \cup { <<"-">> \o Declarations[k].short_flag :
              k \in 1..Len(Declarations) }
    \cup { <<>>, <<"x">>, <<"a">>, <<"u">> }

\* the elements of the argument lists of two calls that run at the same time
SharedElements ==
    { <<"a">>,                                    \* a
      <<"-", "-">>,                               \* --
      <<"-", "n", "r">>,                          \* -nr
      <<"-", "-", "r", "e", "q", "a", "r", "g">> } \* --reqarg

\* the arguments of add_option calls on a table that starts empty: no short
\* flag, one character, more than one; no long flag or one; no placeholder,
\* plain, led by "=", bracketed, bracketed with "=", "=" alone, and "=" before
\* a bracket
DeclaredShortFlags == { <<>>, <<"f">>, <<"g", "h">> }
DeclaredLongFlags == { <<>>, <<"f", "o", "o">> }
DeclaredArgNames ==
    { <<>>, <<"A">>, <<"=", "A">>, <<"[", "A", "]">>,
      <<"[", "=", "A", "]">>, <<"=">>, <<"=", "[", "A", "]">> }

\* the argument lists parsed with such a table
DeclaredArgvs ==
    { << <<"-", "f">>, <<"-", "-">> >>,                        \* -f --
      << <<"-", "-", "f", "o", "o">>, <<"a">> >>,              \* --foo a
      << <<"-", "-", "f", "o", "o", "=", "a">> >>,             \* --foo=a
      << <<"a">>, <<"-", "g">> >>,                             \* a -g
      << <<"-", "-", "f">> >>,                                 \* --f
      << <<"-", "-", "f", "=", "a">> >>,                       \* --f=a
      << <<"-", "h">> >>,                                      \* -h
      << <<"-", "g", "h">> >> }                                \* -gh

RECURSIVE SumCounts(_)
\* sum of the counts of the ParsedOption entries po
SumCounts(po) ==
    IF po = <<>> THEN 0
    ELSE po[Len(po)].count + SumCounts(SubSeq(po, 1, Len(po) - 1))

\* number of add_parsed_option and add_positional_argument calls r is the
\* result of
Calls(r) == SumCounts(r.parsed_options) + Len(r.positional_args)

\* all sequences over S of length at most n
SeqUpTo(S, n) == UNION { [1..k -> S] : k \in 0..n }

\* argc of a parse_argv call: the number of elements of argv
argc == Len(argv)

----------------------------------------------------------------------------
(* The state machine: one call of parse or parse_argv on a declared table *)

Init ==
    /\ options = declare(Len(Declarations))
    /\ declared = Declarations
    /\ entry \in {"parse", "parse_argv", "accumulate"}
    /\ argv \in CASE entry = "parse" -> SeqUpTo(Elements, MaxArgs)
                  [] entry = "parse_argv" ->
                       {<<>>} \cup { <<p>> \o a : p \in ProgramNames,
                                               a \in SeqUpTo(Elements, MaxArgs) }
                  [] entry = "accumulate" -> {<<>>}
    /\ pc = IF entry = "accumulate" THEN "accumulate" ELSE "call"
    /\ first = 0
    /\ last = 0
    /\ idx = 0
    /\ res = EmptyParseResult
    /\ result = NoResult
    /\ other = NoCall
    /\ call = Idle

\* parse(first, last) is entered: lines 387-390
Parse ==
    /\ pc = "call"
    /\ entry = "parse"
    /\ first' = 0
    /\ last' = Len(argv)
    /\ idx' = 0
    /\ res' = EmptyParseResult
    /\ pc' = "parse"
    /\ UNCHANGED <<options, declared, other, call, entry, argv, result>>

\* ParseArgv that hands the whole of argv to parse, the program name included
ParseArgv_from_program_name ==
    /\ pc = "call"
    /\ entry = "parse_argv"
    /\ IF argc < 1
       THEN /\ result' = unexpected(0, format(<<"argc less than 1">>))
            /\ pc' = "done"
            /\ UNCHANGED <<first, last, idx, res>>
       ELSE /\ first' = 0
            /\ last' = argc
            /\ idx' = 0
            /\ res' = EmptyParseResult
            /\ pc' = "parse"
            /\ UNCHANGED result
    /\ UNCHANGED <<options, declared, other, call, entry, argv>>

\* parse_argv(argc, argv) is entered: lines 514-521
ParseArgv ==
    /\ pc = "call"
    /\ entry = "parse_argv"
    /\ IF argc < 1
       THEN /\ result' = unexpected(0, format(<<"argc less than 1">>))
            /\ pc' = "done"
            /\ UNCHANGED <<first, last, idx, res>>
       ELSE /\ first' = 1
            /\ last' = argc
            /\ idx' = 0
            /\ res' = EmptyParseResult
            /\ pc' = "parse"
            /\ UNCHANGED result
    /\ UNCHANGED <<options, declared, other, call, entry, argv>>

\* Apply that counts one element per iteration whatever the body consumed
Apply_idx_once(out) ==
    IF out.ret
    THEN /\ result' = out.result
         /\ pc' = IF entry = "parse_argv" THEN "parse_argv_return" ELSE "done"
         /\ first' = out.first
         /\ res' = out.res
         /\ UNCHANGED idx
    ELSE /\ first' = out.first + 1
         /\ idx' = idx + 1
         /\ res' = out.res
         /\ UNCHANGED <<result, pc>>

\* the effect of one pass through the loop body with outcome out: a return
\* hands the std::expected to the caller and leaves the locals as they were
\* at the return statement, otherwise the loop increments first and idx
\* (line 390)
Apply(out) ==
    IF out.ret
    THEN /\ result' = out.result
         /\ pc' = IF entry = "parse_argv" THEN "parse_argv_return" ELSE "done"
         /\ first' = out.first
         /\ res' = out.res
         /\ UNCHANGED idx
    ELSE /\ first' = out.first + 1
         /\ idx' = out.idx + 1
         /\ res' = out.res
         /\ UNCHANGED <<result, pc>>

\* one iteration of the loop on a nonoption element: lines 393-398
Positional ==
    /\ pc = "parse"
    /\ first # last
    /\ is_nonoption(deref(argv, first))
    /\ Apply(loop_body(options, argv, first, last, idx, res))
    /\ UNCHANGED <<options, declared, other, call, entry, argv, last>>

\* one iteration of the loop on the element "--": lines 402-406
Terminator ==
    /\ pc = "parse"
    /\ first # last
    /\ deref(argv, first) = <<"-", "-">>
    /\ Apply(loop_body(options, argv, first, last, idx, res))
    /\ UNCHANGED <<options, declared, other, call, entry, argv, last>>

\* one iteration of the loop on a long option element: lines 408-457
LongOption ==
    /\ pc = "parse"
    /\ first # last
    /\ starts_with(deref(argv, first), <<"-", "-">>)
    /\ deref(argv, first) # <<"-", "-">>
    /\ Apply(loop_body(options, argv, first, last, idx, res))
    /\ UNCHANGED <<options, declared, other, call, entry, argv, last>>

\* one iteration of the loop on a short option cluster: lines 459-506
ShortOptions ==
    /\ pc = "parse"
    /\ first # last
    /\ ~is_nonoption(deref(argv, first))
    /\ ~starts_with(deref(argv, first), <<"-", "-">>)
    /\ Apply(loop_body(options, argv, first, last, idx, res))
    /\ UNCHANGED <<options, declared, other, call, entry, argv, last>>

\* the loop ends and parse returns res: line 509
ParseEnd ==
    /\ pc = "parse"
    /\ first = last
    /\ result' = expected(res)
    /\ pc' = IF entry = "parse_argv" THEN "parse_argv_return" ELSE "done"
    /\ UNCHANGED <<options, declared, other, call, entry, argv, first, last, idx, res>>

\* parse_argv receives the result of parse: lines 523-527
ParseArgvReturn ==
    /\ pc = "parse_argv_return"
    /\ result' = IF ~result.has_value
                 THEN [result EXCEPT !.error.originating_arg = @ + 1]
                 ELSE result
    /\ pc' = "done"
    /\ UNCHANGED <<options, declared, other, call, entry, argv, first, last, idx, res>>

\* the caller calls add_parsed_option(name) on its ParseResult
AddParsedOption ==
    /\ pc = "accumulate"
    /\ Calls(res) < MaxCalls
    /\ \E name \in CallNames : res' = add_parsed_option(res, name)
    /\ UNCHANGED <<options, declared, other, call, entry, argv, pc, first, last, idx, result>>

\* the caller calls add_parsed_option(name, argument) on its ParseResult
AddParsedOptionArgument ==
    /\ pc = "accumulate"
    /\ Calls(res) < MaxCalls
    /\ \E name \in CallNames, argument \in CallArguments :
          res' = add_parsed_option_argument(res, name, argument)
    /\ UNCHANGED <<options, declared, other, call, entry, argv, pc, first, last, idx, result>>

\* the caller calls add_positional_argument(argument) on its ParseResult
AddPositionalArgument ==
    /\ pc = "accumulate"
    /\ Calls(res) < MaxCalls
    /\ \E argument \in CallArguments :
          res' = add_positional_argument(res, argument)
    /\ UNCHANGED <<options, declared, other, call, entry, argv, pc, first, last, idx, result>>

\* the caller looks a name up in the ParseResult a call has returned:
\* lines 125-151
Lookup ==
    /\ pc = "done"
    /\ result # NoResult
    /\ result.has_value
    /\ \E name \in LookupNames :
          result' = expected(lookups(result.value, name))
    /\ pc' = "looked_up"
    /\ UNCHANGED <<options, declared, other, call, entry, argv, first, last, idx, res>>

Next ==
    \/ Parse
    \/ ParseArgv
    \/ Positional
    \/ Terminator
    \/ LongOption
    \/ ShortOptions
    \/ ParseEnd
    \/ ParseArgvReturn
    \/ AddParsedOption
    \/ AddParsedOptionArgument
    \/ AddPositionalArgument
    \/ Lookup

Spec == Init /\ [][Next]_vars

\* the calls of Init on argument lists made of NameElements
InitNames ==
    /\ options = declare(Len(Declarations))
    /\ declared = Declarations
    /\ entry \in {"parse", "parse_argv", "accumulate"}
    /\ argv \in CASE entry = "parse" -> SeqUpTo(NameElements, MaxArgs)
                  [] entry = "parse_argv" ->
                       {<<>>} \cup { <<p>> \o a : p \in NameProgramNames,
                                               a \in SeqUpTo(NameElements, MaxArgs) }
                  [] entry = "accumulate" -> {<<>>}
    /\ pc = IF entry = "accumulate" THEN "accumulate" ELSE "call"
    /\ first = 0
    /\ last = 0
    /\ idx = 0
    /\ res = EmptyParseResult
    /\ result = NoResult
    /\ other = NoCall
    /\ call = Idle

SpecNames == InitNames /\ [][Next]_vars

\* the caller declares one more option before it calls parse: lines 240-285
AddOption ==
    /\ pc = "call"
    /\ Len(options) < MaxOptions
    /\ \E short_flag \in DeclaredShortFlags, long_flag \in DeclaredLongFlags,
          arg_name \in DeclaredArgNames :
          /\ options' = add_option(options, short_flag, long_flag, arg_name,
                                   <<>>)
          /\ declared' = Append(declared,
                                [short_flag |-> short_flag,
                                 long_flag |-> long_flag,
                                 arg_name |-> arg_name])
    /\ UNCHANGED <<entry, argv, pc, first, last, idx, res, result, other, call>>

\* a table that starts empty, filled by add_option calls and then parsed
InitDeclare ==
    /\ options = <<>>
    /\ declared = <<>>
    /\ entry = "parse"
    /\ argv \in DeclaredArgvs
    /\ pc = "call"
    /\ first = 0
    /\ last = 0
    /\ idx = 0
    /\ res = EmptyParseResult
    /\ result = NoResult
    /\ other = NoCall
    /\ call = Idle

NextDeclare ==
    \/ AddOption
    \/ Parse
    \/ Positional
    \/ Terminator
    \/ LongOption
    \/ ShortOptions
    \/ ParseEnd

SpecDeclare == InitDeclare /\ [][NextDeclare]_vars

\* the call that takes steps, as the record kept of a call that does not
ThisCall(id) ==
    [id |-> id, argv |-> argv, pc |-> pc, first |-> first, last |-> last,
     idx |-> idx, res |-> res, result |-> result]

\* Switch with the accumulator res outside the call (a static local), so that
\* the two calls fill the same one
Switch_shared_res ==
    /\ other # NoCall
    /\ argv' = other.argv
    /\ pc' = other.pc
    /\ first' = other.first
    /\ last' = other.last
    /\ idx' = other.idx
    /\ res' = res
    /\ result' = other.result
    /\ other' = ThisCall(3 - other.id)
    /\ UNCHANGED <<options, declared, entry, call>>

\* the thread of the other call is scheduled: its argument range, its locals
\* first, idx and res (lines 387-390) and its result are its own, the table is
\* the one both calls read
Switch ==
    /\ other # NoCall
    /\ argv' = other.argv
    /\ pc' = other.pc
    /\ first' = other.first
    /\ last' = other.last
    /\ idx' = other.idx
    /\ res' = other.res
    /\ result' = other.result
    /\ other' = ThisCall(3 - other.id)
    /\ UNCHANGED <<options, declared, entry, call>>

\* two parse calls on one declared table, on argument lists of their own
InitShared ==
    /\ options = declare(Len(Declarations))
    /\ declared = Declarations
    /\ entry = "parse"
    /\ argv \in SeqUpTo(SharedElements, MaxShared)
    /\ pc = "call"
    /\ first = 0
    /\ last = 0
    /\ idx = 0
    /\ res = EmptyParseResult
    /\ result = NoResult
    /\ \E av \in SeqUpTo(SharedElements, MaxShared) :
          other = [id |-> 2, argv |-> av, pc |-> "call", first |-> 0,
                   last |-> 0, idx |-> 0, res |-> EmptyParseResult,
                   result |-> NoResult]
    /\ call = Idle

NextShared ==
    \/ Parse
    \/ Positional
    \/ Terminator
    \/ LongOption
    \/ ShortOptions
    \/ ParseEnd
    \/ Switch

SpecShared == InitShared /\ [][NextShared]_vars

----------------------------------------------------------------------------
(* The state machine: one call of convert_to *)

\* the digits in the order of their values
DigitCharacters ==
    << "0", "1", "2", "3", "4", "5", "6", "7", "8", "9",
       "a", "b", "c", "d", "e", "f" >>

RECURSIVE ToDigits(_, _)
\* the magnitude n written in the radix, without leading zeros; no digits at
\* all for n = -1
ToDigits(n, radix) ==
    IF n < 0 THEN <<>>
    ELSE IF n < radix THEN <<DigitCharacters[n + 1]>>
    ELSE ToDigits(n \div radix, radix) \o <<DigitCharacters[(n % radix) + 1]>>

\* the inputs of convert_to for an integral T: what stands before the digits,
\* a prefix, the magnitude and the radix it is written in, and what follows
\* the digits.  Every magnitude comes with and without a minus sign and a
\* space behind it; the small magnitudes and the largest come with every
\* lead (nothing, a minus sign, a space, two minus signs), every prefix and
\* every trailer (nothing, a space, a letter that is a digit in no radix)
IntegerInputs ==
    [lead    : { <<>>, <<"-">> },
     prefix  : { <<>> },
     n       : 0..MaxMagnitude,
     radix   : {2, 8, 10, 16},
     trailer : { <<>>, <<" ">> }]
    \cup
    [lead    : { <<>>, <<"-">>, <<" ">>, <<"-", "-">> },
     prefix  : { <<>>, <<"0">>, <<"0", "x">>, <<"0", "X">>, <<"0", "b">>,
                 <<"0", "B">> },
     n       : (-1..MaxPrefixed) \cup {MaxMagnitude},
     radix   : {2, 8, 10, 16},
     trailer : { <<>>, <<" ">>, <<"g">> }]

\* the text of an input
Text(in) == in.lead \o in.prefix \o ToDigits(in.n, in.radix) \o in.trailer

\* the calls of convert_to for an integral T: with the radix the digits are
\* written in as the base, or with base 0
IntegerCalls ==
    { [fn |-> "convert_to", T |-> t, input |-> in, sv |-> Text(in),
       base |-> IF detect THEN 0 ELSE in.radix, result |-> NoResult] :
         t \in {int8_t, uint8_t}, in \in IntegerInputs, detect \in BOOLEAN }

\* the calls of convert_to in magnitude-suffix mode: a magnitude with and
\* without a minus sign, followed by nothing, by one of the suffix letters in
\* either case, by another letter, by two suffix letters or by a suffix
\* letter and a space
SuffixCalls ==
    { [fn |-> "convert_to_suffix", T |-> t, mode |-> m, negated |-> neg,
       n |-> n, suffix |-> suffix,
       sv |-> (IF neg THEN <<"-">> ELSE <<>>) \o ToDigits(n, 10) \o suffix,
       base |-> 10, result |-> NoResult] :
         t \in {int16_t, uint16_t}, m \in {"decimal", "binary"},
         neg \in BOOLEAN, n \in 0..MaxScaled,
         suffix \in { <<>>, <<"k">>, <<"K">>, <<"m">>, <<"M">>, <<"g">>,
                      <<"G">>, <<"t">>, <<"T">>, <<"p">>, <<"P">>, <<"e">>,
                      <<"E">>, <<"x">>, <<"k", "k">>, <<"k", " ">> } }

\* the ways to write a word in upper-case and lower-case letters
CaseVariants(word) ==
    LET lower == << "a", "e", "f", "l", "n", "o", "r", "s", "t", "u", "y" >>
        upper == << "A", "E", "F", "L", "N", "O", "R", "S", "T", "U", "Y" >>
        up(ch) == IF \E k \in 1..Len(lower) : lower[k] = ch
                  THEN upper[CHOOSE k \in 1..Len(lower) : lower[k] = ch]
                  ELSE ch
    IN  { [i \in 1..Len(word) |-> IF f[i] THEN up(word[i]) ELSE word[i]] :
             f \in [1..Len(word) -> BOOLEAN] }

\* the words convert_to<bool> documents as true and as false
TrueWords ==
    { <<"y", "e", "s">>, <<"t", "r", "u", "e">>, <<"o", "n">>, <<"1">> }
FalseWords ==
    { <<"n", "o">>, <<"f", "a", "l", "s", "e">>, <<"o", "f", "f">>, <<"0">> }

\* the calls of convert_to<bool>: the words in every case, their proper
\* prefixes, their extensions by their last character, the words with a
\* space before or behind them, the invalid inputs of the tests, and
\* characters whose codes differ by 32 from those of other characters
BoolCalls ==
    LET cased  == UNION { CaseVariants(w) : w \in TrueWords \cup FalseWords }
        inputs == cased
                  \cup UNION { { SubSeq(v, 1, k) : k \in 0..(Len(v) - 1) } :
                               v \in cased }
                  \cup { v \o <<v[Len(v)]>> : v \in cased }
                  \cup { <<" ">> \o v : v \in cased }
                  \cup { v \o <<" ">> : v \in cased }
                  \cup { <<"0", "n">>, <<"n", "o", "f", "f">>, <<"2">>,
                         <<"-", "1">>, <<"Q">>, <<"P">>, <<"@", "n">>,
                         <<"o", ".">> }
    IN  { [fn |-> "convert_to_bool", sv |-> sv, result |-> NoResult] :
             sv \in inputs }

InitConvert ==
    /\ options = <<>>
    /\ declared = <<>>
    /\ entry = "convert_to"
    /\ argv = <<>>
    /\ pc = "call"
    /\ first = 0
    /\ last = 0
    /\ idx = 0
    /\ res = EmptyParseResult
    /\ result = NoResult
    /\ other = NoCall
    /\ call \in IntegerCalls \cup SuffixCalls \cup BoolCalls

\* convert_to<T>(sv, base) returns: lines 556-622
ConvertInteger ==
    /\ pc = "call"
    /\ call.fn = "convert_to"
    /\ call' = [call EXCEPT !.result = convert_to(call.T, call.sv, call.base)]
    /\ pc' = "done"
    /\ UNCHANGED <<options, declared, entry, argv, first, last, idx, res,
                   result, other>>

\* convert_to<T, KiloMultiplier>(sv, base) returns
ConvertSuffix ==
    /\ pc = "call"
    /\ call.fn = "convert_to_suffix"
    /\ call' = [call EXCEPT !.result = convert_to_suffix(call.T, call.mode,
                                                         call.sv, call.base)]
    /\ pc' = "done"
    /\ UNCHANGED <<options, declared, entry, argv, first, last, idx, res,
                   result, other>>

\* convert_to<bool>(sv) returns: lines 633-649
ConvertBool ==
    /\ pc = "call"
    /\ call.fn = "convert_to_bool"
    /\ call' = [call EXCEPT !.result = convert_to_bool(call.sv)]
    /\ pc' = "done"
    /\ UNCHANGED <<options, declared, entry, argv, first, last, idx, res,
                   result, other>>

NextConvert ==
    \/ ConvertInteger
    \/ ConvertSuffix
    \/ ConvertBool

SpecConvert == InitConvert /\ [][NextConvert]_vars

----------------------------------------------------------------------------
(* The state machine: add_option calls on an empty table, then one call of  *)
(* get_option_help                                                          *)

InitHelp ==
    /\ options = <<>>
    /\ declared = <<>>
    /\ entry = "get_option_help"
    /\ argv = <<>>
    /\ pc = "call"
    /\ first = 0
    /\ last = 0
    /\ idx = 0
    /\ res = EmptyParseResult
    /\ result = NoResult
    /\ other = NoCall
    /\ call = Idle

\* add_option(short_flag, long_flag, arg_name, description): no short flag
\* or one; no long flag, a short one, or one that makes the flags part longer
\* than the limit; no placeholder or a bracketed one; a description that is
\* empty, that is spaces only, or that has three words
AddOptionDescribed ==
    /\ pc = "call"
    /\ Len(options) < MaxHelpOptions
    /\ \E short_flag \in { <<>>, <<"f">> },
          long_flag \in { <<>>, <<"f", "o", "o">>, [i \in 1..20 |-> "g"] },
          arg_name \in { <<>>, <<"[", "A", "]">> },
          description \in { <<>>, <<" ", " ">>,
                            <<"a", "a", " ", "b", "b", " ", "c", "c">> } :
          /\ options' = add_option(options, short_flag, long_flag, arg_name,
                                   description)
          /\ declared' = Append(declared,
                                [short_flag |-> short_flag,
                                 long_flag |-> long_flag,
                                 arg_name |-> arg_name,
                                 description |-> description])
    /\ UNCHANGED <<entry, argv, pc, first, last, idx, res, result, other, call>>

\* get_option_help(line_width) returns: lines 290-381; the width is 0, less
\* than every flags part, or more than some or than all of them
GetOptionHelp ==
    /\ pc = "call"
    /\ \E line_width \in {0, 1, 20, 40} :
          call' = [fn |-> "get_option_help", line_width |-> line_width,
                   result |-> get_option_help(options, line_width)]
    /\ pc' = "done"
    /\ UNCHANGED <<options, declared, entry, argv, first, last, idx, res,
                   result, other>>

NextHelp ==
    \/ AddOptionDescribed
    \/ GetOptionHelp

SpecHelp == InitHelp /\ [][NextHelp]_vars

----------------------------------------------------------------------------
(* The state machine: one call of detail::word_wrap                         *)

\* the call: a string of letters and spaces and a width
InitWrap ==
    /\ options = <<>>
    /\ declared = <<>>
    /\ entry = "word_wrap"
    /\ argv = <<>>
    /\ pc = "call"
    /\ first = 0
    /\ last = 0
    /\ idx = 0
    /\ res = EmptyParseResult
    /\ result = NoResult
    /\ other = NoCall
    /\ \E n \in 0..MaxWrapLen, width \in 0..MaxWidth :
          \E sv \in [1..n -> {"a", "b", " "}] :
             call = [fn |-> "word_wrap", sv |-> sv, width |-> width]

\* detail::word_wrap(sv, width) returns: lines 60-90
WordWrap ==
    /\ pc = "call"
    /\ call' = [fn |-> "word_wrap", sv |-> call.sv, width |-> call.width,
                result |-> word_wrap(call.sv, call.width)]
    /\ pc' = "done"
    /\ UNCHANGED <<options, declared, entry, argv, first, last, idx, res,
                   result, other>>

SpecWrap == InitWrap /\ [][WordWrap]_vars

----------------------------------------------------------------------------
(* Vocabulary of the properties, in terms of the declared table and the     *)
(* text of the elements                                                     *)

\* the declared options
Opts == { options[k] : k \in 1..Len(options) }

\* the option is declared without / with a bracketed / with a plain or
\* "="-led placeholder
NoArg(o) == o.arg_name = <<>>
OptionalArg(o) == o.arg_name # <<>> /\ o.arg_name[1] = "["
RequiredArg(o) == o.arg_name # <<>> /\ o.arg_name[1] # "["

\* index in argv of the first element of the parsed range
Base == IF entry = "parse_argv" THEN 1 ELSE 0

\* the loop is about to examine the element Cur
InLoop == pc = "parse" /\ first < last
Cur == deref(argv, first)

\* the element e is "--" followed by the long flag of o
IsLong(e, o) == e = <<"-", "-">> \o o.long_flag

\* the element e is a short cluster: "-", then a character other than "-"
IsCluster(e) == Len(e) >= 2 /\ e[1] = "-" /\ e[2] # "-"

\* the character at position k of e is short flag of o
IsFlagAt(e, k, o) == o.short_flag = <<e[k]>>

\* the character at position k of the cluster e is reached as a flag: every
\* character before it names a declared option without argument
Reached(e, k) ==
    \A j \in 2..(k - 1) : \E o \in Opts : IsFlagAt(e, j, o) /\ NoArg(o)

\* e gives o as the last character of a short cluster
IsLastOfCluster(e, o) ==
    IsCluster(e) /\ IsFlagAt(e, Len(e), o) /\ Reached(e, Len(e))

\* number of the characters before position k of e that are the flag of o
FlagsBefore(e, k, o) == Cardinality({ j \in 2..(k - 1) : IsFlagAt(e, j, o) })

\* the accumulator an outcome of the loop body carries, if any
Carried(out) ==
    IF ~out.ret THEN out.res
    ELSE IF out.result.has_value THEN out.result.value
    ELSE EmptyParseResult

\* the arguments of name in r behind the first n of them
ArgumentsFrom(r, name, n) ==
    SubSeq(get_arguments_for_option(r, name), n + 1,
           Len(get_arguments_for_option(r, name)))

\* from the accumulators a and b, the outcomes outa and outb of a pass through
\* the loop body are alike: same kind of outcome, same advance, same error,
\* same positional arguments, occurrences and arguments added
SameOutcome(a, outa, b, outb) ==
    /\ outa.ret = outb.ret
    /\ ~outa.ret => outa.first = outb.first /\ outa.idx = outb.idx
    /\ outa.ret => outa.result.has_value = outb.result.has_value
    /\ outa.ret /\ ~outa.result.has_value => outa.result = outb.result
    /\ SubSeq(Carried(outa).positional_args, Len(a.positional_args) + 1,
              Len(Carried(outa).positional_args))
         = SubSeq(Carried(outb).positional_args, Len(b.positional_args) + 1,
                  Len(Carried(outb).positional_args))
    /\ ~(outa.ret /\ ~outa.result.has_value) =>
         \A p \in Opts :
            /\ count(Carried(outa), p.long_flag) - count(a, p.long_flag)
                 = count(Carried(outb), p.long_flag) - count(b, p.long_flag)
            /\ ArgumentsFrom(Carried(outa), p.long_flag,
                             Len(get_arguments_for_option(a, p.long_flag)))
                 = ArgumentsFrom(Carried(outb), p.long_flag,
                                 Len(get_arguments_for_option(b, p.long_flag)))

\* the element e is a long option element: "--" and at least one character
IsLongElement(e) == Len(e) >= 3 /\ e[1] = "-" /\ e[2] = "-"

\* the long option element e contains "="
HasInline(e) == \E k \in 3..Len(e) : e[k] = "="

\* the name of the long option element e: the text between "--" and the
\* first "=", or the end
LongName(e) ==
    IF HasInline(e)
    THEN SubSeq(e, 3, (CHOOSE k \in 3..Len(e) :
                          e[k] = "=" /\ \A j \in 3..(k - 1) : e[j] # "=") - 1)
    ELSE SubSeq(e, 3, Len(e))

\* the long option element e cannot be accepted: its name is not declared,
\* it has a value for an option without argument, or it lacks a required one
FailsLong(e, hasNext) ==
    /\ IsLongElement(e)
    /\ \/ \A o \in Opts : o.long_flag # LongName(e)
       \/ \E o \in Opts :
             /\ o.long_flag = LongName(e)
             /\ \/ HasInline(e) /\ NoArg(o)
                \/ ~HasInline(e) /\ RequiredArg(o) /\ ~hasNext

\* the cluster e cannot be accepted because of its character at position k:
\* it is reached as a flag and is not declared, or is last and lacks the
\* argument it requires
FailsAt(e, k, hasNext) ==
    /\ Reached(e, k)
    /\ \/ \A o \in Opts : ~IsFlagAt(e, k, o)
       \/ /\ k = Len(e)
          /\ ~hasNext
          /\ \E o \in Opts : IsFlagAt(e, k, o) /\ RequiredArg(o)

\* the option element e cannot be accepted
Fails(e, hasNext) ==
    \/ FailsLong(e, hasNext)
    \/ IsCluster(e) /\ \E k \in 2..Len(e) : FailsAt(e, k, hasNext)

\* the openings of the messages for a missing required argument
MissingMessages ==
    {"missing required argument for '--", "missing required argument for '"}

\* the message what quotes the element e
Quotes(what, e) ==
    IF what[1] = "unrecognized long option '--"
    THEN e = <<"-", "-">> \o what[2] \/
         starts_with(e, <<"-", "-">> \o what[2] \o <<"=">>)
    ELSE IF what[1] \in {"extraneous argument in '--",
                         "missing required argument for '--"}
    THEN e = <<"-", "-">> \o what[2]
    ELSE Len(what) = 5 /\ e = <<"-">> \o what[4]

\* the option element e takes the element behind it as its argument
TakesNext(e) ==
    \E o \in Opts : RequiredArg(o) /\ (IsLong(e, o) \/ IsLastOfCluster(e, o))

RECURSIVE FirstFailure(_)
\* index in argv of the leftmost element, from index k on, that is examined
\* as an option element and cannot be accepted, or -1 if there is none:
\* elements behind "--" and elements taken as arguments are not examined
FirstFailure(k) ==
    IF k >= last THEN -1
    ELSE IF deref(argv, k) = <<"-", "-">> THEN -1
    ELSE IF Fails(deref(argv, k), k + 1 < last) THEN k
    ELSE IF TakesNext(deref(argv, k)) THEN FirstFailure(k + 2)
    ELSE FirstFailure(k + 1)

\* the parse loop was entered and the call has returned to its caller
Returned == pc = "done" /\ (entry = "parse" \/ argc >= 1)

\* number of times the option element e gives the option o: once as
\* "--" and its long flag, with or without "=" and a value, or once per
\* character of a cluster that is reached as a flag and is the short flag
\* of o
GivenIn(e, o) ==
    IF IsLongElement(e) /\ LongName(e) = o.long_flag THEN 1
    ELSE IF IsCluster(e)
    THEN Cardinality({ j \in 2..Len(e) : Reached(e, j) /\ IsFlagAt(e, j, o) })
    ELSE 0

RECURSIVE Occurrences(_, _)
\* number of times the input gives the option o from index k of argv on, in
\* the elements that are examined as option elements
Occurrences(k, o) ==
    IF k >= last THEN 0
    ELSE IF deref(argv, k) = <<"-", "-">> THEN 0
    ELSE GivenIn(deref(argv, k), o)
         + (IF TakesNext(deref(argv, k))
            THEN Occurrences(k + 2, o) ELSE Occurrences(k + 1, o))

\* the long flag of the option whose short flag is the character c
LongFlagOf(c) == (CHOOSE o \in Opts : o.short_flag = <<c>>).long_flag

\* the names of the options the accepted option element e gives, in order
NamesGivenIn(e) ==
    IF IsLongElement(e) THEN << LongName(e) >>
    ELSE IF IsCluster(e)
    THEN LET m == Cardinality({ j \in 2..Len(e) : Reached(e, j) })
         IN  [ j \in 1..m |-> LongFlagOf(e[j + 1]) ]
    ELSE <<>>

RECURSIVE NamesGiven(_)
\* the names of the options an accepted input gives from index k of argv on,
\* in order, one per occurrence
NamesGiven(k) ==
    IF k >= last THEN <<>>
    ELSE IF deref(argv, k) = <<"-", "-">> THEN <<>>
    ELSE NamesGivenIn(deref(argv, k))
         \o (IF TakesNext(deref(argv, k))
             THEN NamesGiven(k + 2) ELSE NamesGiven(k + 1))

RECURSIVE FirstOccurrences(_)
\* the sequence q without the repetitions of its members
FirstOccurrences(q) ==
    IF q = <<>> THEN <<>>
    ELSE LET before == FirstOccurrences(SubSeq(q, 1, Len(q) - 1))
         IN  IF \E i \in 1..Len(before) : before[i] = q[Len(q)]
             THEN before
             ELSE Append(before, q[Len(q)])

\* the names of the ParsedOption entries of r, in order
EntryNames(r) ==
    [ i \in 1..Len(get_parsed_options(r)) |-> get_parsed_options(r)[i].name ]

\* r has one entry per name, found by lookup, each with a count of at least
\* 1 and no more arguments than its count
OneEntryPerName(r) ==
    LET po == get_parsed_options(r)
    IN  /\ \A i, j \in 1..Len(po) : po[i].name = po[j].name => i = j
        /\ \A i \in 1..Len(po) :
              /\ po[i].count >= 1
              /\ Len(po[i].arguments) <= po[i].count
              /\ count(r, po[i].name) = po[i].count

\* the text of the long option element e behind its first "="
InlineValue(e) ==
    SubSeq(e, Len(<<"-", "-">> \o LongName(e) \o <<"=">>) + 1, Len(e))

\* the values the accepted option element e, at index k of argv, gives the
\* option o: none or one, being the text behind "=", the rest of the
\* cluster, or the element behind e
ValuesGivenIn(e, k, o) ==
    IF IsLongElement(e) /\ LongName(e) = o.long_flag
    THEN IF HasInline(e) THEN << InlineValue(e) >>
         ELSE IF RequiredArg(o) THEN << deref(argv, k + 1) >>
         ELSE <<>>
    ELSE IF /\ IsCluster(e)
            /\ ~NoArg(o)
            /\ \E j \in 2..Len(e) : Reached(e, j) /\ IsFlagAt(e, j, o)
    THEN LET j == CHOOSE j \in 2..Len(e) : Reached(e, j) /\ IsFlagAt(e, j, o)
         IN  IF j < Len(e) THEN << SubSeq(e, j + 1, Len(e)) >>
             ELSE IF RequiredArg(o) THEN << deref(argv, k + 1) >>
             ELSE <<>>
    ELSE <<>>

RECURSIVE ValuesGiven(_, _)
\* the values an accepted input gives the option o from index k of argv on,
\* in order
ValuesGiven(k, o) ==
    IF k >= last THEN <<>>
    ELSE IF deref(argv, k) = <<"-", "-">> THEN <<>>
    ELSE ValuesGivenIn(deref(argv, k), k, o)
         \o (IF TakesNext(deref(argv, k))
             THEN ValuesGiven(k + 2, o) ELSE ValuesGiven(k + 1, o))

\* the element e is a nonoption element: it does not start with "-", or it
\* is "-"
IsNonoption(e) == e = <<>> \/ e[1] # "-" \/ Len(e) = 1

RECURSIVE PositionalsGiven(_)
\* the positional arguments an accepted input gives from index k of argv on:
\* the nonoption elements that are examined, and everything behind "--"
PositionalsGiven(k) ==
    IF k >= last THEN <<>>
    ELSE IF deref(argv, k) = <<"-", "-">> THEN SubSeq(argv, k + 2, last)
    ELSE IF IsNonoption(deref(argv, k))
    THEN << deref(argv, k) >> \o PositionalsGiven(k + 1)
    ELSE IF TakesNext(deref(argv, k)) THEN PositionalsGiven(k + 2)
    ELSE PositionalsGiven(k + 1)

\* the argument mode a placeholder stands for as the caller gives it: none
\* when it is empty, optional when it starts with "[", required otherwise
DeclaredNoArg(arg_name) == arg_name = <<>>
DeclaredOptionalArg(arg_name) == arg_name # <<>> /\ arg_name[1] = "["
DeclaredRequiredArg(arg_name) == arg_name # <<>> /\ arg_name[1] # "["

\* the element e is "-" and one character that is the short flag of the
\* option at k and of no option before it, or "--" and, up to "=" or the
\* end, a name that is the long flag of the option at k and of no option
\* before it
FoundAt(e, k) ==
    \/ /\ IsCluster(e)
       /\ Len(e) = 2
       /\ options[k].short_flag = << e[2] >>
       /\ \A j \in 1..(k - 1) : options[j].short_flag # << e[2] >>
    \/ /\ IsLongElement(e)
       /\ options[k].long_flag = LongName(e)
       /\ \A j \in 1..(k - 1) : options[j].long_flag # LongName(e)

----------------------------------------------------------------------------
(* Properties *)

\* C1: when the loop examines an option that requires an argument, given as
\* --name without "=" or as the last character of a short cluster, and an
\* element follows, the step appends that following element verbatim to the
\* option's arguments and moves the iterator past it: the element is not
\* added as a positional argument, does not end the parse, and contributes
\* no occurrence of an option of its own.
C1_RequiredTakesNext ==
    [][ \A o \in Opts :
          ( /\ InLoop
            /\ RequiredArg(o)
            /\ IsLong(Cur, o) \/ IsLastOfCluster(Cur, o)
            /\ first + 1 < last )
          => /\ get_arguments_for_option(res', o.long_flag)
                  = Append(get_arguments_for_option(res, o.long_flag),
                           deref(argv, first + 1))
             /\ count(res', o.long_flag) = count(res, o.long_flag) + 1
             /\ first' = first + 2
             /\ idx' = idx + 2
             /\ pc' = "parse"
             /\ result' = result
             /\ get_positional_arguments(res') = get_positional_arguments(res)
             /\ \A p \in Opts \ {o} :
                   /\ count(res', p.long_flag)
                        = count(res, p.long_flag)
                          + (IF IsCluster(Cur)
                             THEN FlagsBefore(Cur, Len(Cur), p) ELSE 0)
                   /\ get_arguments_for_option(res', p.long_flag)
                        = get_arguments_for_option(res, p.long_flag)
      ]_vars

\* C1 witness: the first element was an option requiring an argument, the
\* second was "--", and "--" is now that option's argument while the loop
\* goes on behind it
C1_Witness ==
    /\ pc = "parse"
    /\ first = Base + 2
    /\ \E o \in Opts :
          /\ RequiredArg(o)
          /\ IsLong(deref(argv, Base), o) \/ IsLastOfCluster(deref(argv, Base), o)
          /\ deref(argv, Base + 1) = <<"-", "-">>
          /\ get_arguments_for_option(res, o.long_flag) = << <<"-", "-">> >>
          /\ get_positional_arguments(res) = <<>>

\* C2: when the loop examines an option whose argument is optional, given as
\* --name without "=" or as the last character of a short cluster, the step
\* counts one occurrence, appends no argument and advances the iterator by
\* one element only; the following element, if any, then has the outcome it
\* has from the accumulator as it was before the option.
C2_OptionalNeverTakesNext ==
    [][ \A o \in Opts :
          ( /\ InLoop
            /\ OptionalArg(o)
            /\ IsLong(Cur, o) \/ IsLastOfCluster(Cur, o) )
          => /\ count(res', o.long_flag) = count(res, o.long_flag) + 1
             /\ get_arguments_for_option(res', o.long_flag)
                  = get_arguments_for_option(res, o.long_flag)
             /\ first' = first + 1
             /\ idx' = idx + 1
             /\ pc' = "parse"
             /\ result' = result
             /\ get_positional_arguments(res') = get_positional_arguments(res)
             /\ first + 1 < last =>
                  SameOutcome(res',
                      loop_body(options, argv, first + 1, last, idx + 1, res'),
                      res,
                      loop_body(options, argv, first + 1, last, idx + 1, res))
      ]_vars

\* C2 witness: the first element gave an option with optional argument bare,
\* an element follows, and the loop stands at that element with one
\* occurrence and no argument recorded
C2_Witness ==
    /\ pc = "parse"
    /\ first = Base + 1
    /\ first < last
    /\ \E o \in Opts :
          /\ OptionalArg(o)
          /\ IsLong(deref(argv, Base), o) \/ IsLastOfCluster(deref(argv, Base), o)
          /\ count(res, o.long_flag) = 1
          /\ get_arguments_for_option(res, o.long_flag) = <<>>

\* C3: when the loop examines the element "--", parse returns at once with
\* success; the positional arguments of the returned accumulator are those
\* collected so far followed by every element behind "--", in order and
\* verbatim, the recorded options are those recorded so far, and parse_argv
\* hands that accumulator on unchanged.
C3_TerminatorEndsParsing ==
    [][ /\ (InLoop /\ Cur = <<"-", "-">>)
          => /\ pc' # "parse"
             /\ result'.has_value
             /\ get_positional_arguments(result'.value)
                  = get_positional_arguments(res) \o SubSeq(argv, first + 2, last)
             /\ get_parsed_options(result'.value) = get_parsed_options(res)
             /\ result'.value.lookup = res.lookup
        /\ (pc = "parse_argv_return" /\ result.has_value)
          => result' = result /\ pc' = "done"
      ]_vars

\* C3 witness: a finished call that stopped at a "--" reached after a
\* positional argument, with an undeclared flag behind it that became the
\* second positional argument
C3_Witness ==
    /\ pc = "done"
    /\ result.has_value
    /\ Base + 3 = last
    /\ ~starts_with(deref(argv, Base), <<"-">>)
    /\ deref(argv, Base + 1) = <<"-", "-">>
    /\ deref(argv, Base + 2) = <<"-", "u">>
    /\ get_positional_arguments(result.value)
         = << deref(argv, Base), <<"-", "u">> >>
    /\ get_parsed_options(result.value) = <<>>

\* C3 witness, nothing behind "--": the call succeeded without any
\* positional argument
C3_WitnessNothingAfter ==
    /\ pc = "done"
    /\ result.has_value
    /\ Base < last
    /\ deref(argv, last - 1) = <<"-", "-">>
    /\ get_positional_arguments(result.value) = <<>>

\* C4: when a parse_argv call with argc >= 1 has failed, originating_arg is
\* the index in argv of the element the loop examined, an index between 1
\* and argc - 1; that element is an option element that cannot be accepted
\* and the one the message quotes.  With a missing required argument the
\* iterator has moved on to the absent value at argc, and the index reported
\* is that of the option element before it.
C4_OriginatingArgIsArgvIndex ==
    (pc = "done" /\ entry = "parse_argv" /\ argc >= 1 /\ ~result.has_value)
    => LET n == result.error.originating_arg
       IN  /\ IF result.error.what[1] \in MissingMessages
              THEN n = first - 1 /\ first = argc
              ELSE n = first
           /\ 1 <= n /\ n < argc
           /\ Fails(deref(argv, n), n + 1 < argc)
           /\ Quotes(result.error.what, deref(argv, n))

\* C4 witness: a failed parse_argv call in which argv[1] was an option that
\* took argv[2] as its required argument and argv[3] is reported
C4_Witness ==
    /\ pc = "done"
    /\ entry = "parse_argv"
    /\ argc = 4
    /\ ~result.has_value
    /\ result.error.originating_arg = 3
    /\ \E o \in Opts :
          /\ RequiredArg(o)
          /\ IsLong(deref(argv, 1), o) \/ IsLastOfCluster(deref(argv, 1), o)
          /\ get_arguments_for_option(res, o.long_flag) = << deref(argv, 2) >>

\* C4 witness, missing required argument: the last element of argv is an
\* option requiring an argument, and its own index is reported
C4_WitnessMissing ==
    /\ pc = "done"
    /\ entry = "parse_argv"
    /\ argc = 4
    /\ ~result.has_value
    /\ result.error.originating_arg = 3
    /\ result.error.what[1] \in MissingMessages

\* C5: a call that has returned holds either an accumulator or one error,
\* never both.  It holds an error exactly when some examined element cannot
\* be accepted; the error is then the one of the leftmost such element and,
\* in a short cluster, of its leftmost failing character, and the iterator
\* has not moved past that element's argument position.  Once something is
\* returned the loop examines nothing more, and the error stays what it is
\* (parse_argv only adds 1 to its index).
C5_FirstErrorWins ==
    /\ [](Returned =>
           IF result.has_value
           THEN /\ DOMAIN result = {"has_value", "value"}
                /\ FirstFailure(Base) = -1
           ELSE /\ DOMAIN result = {"has_value", "error"}
                /\ DOMAIN result.error = {"originating_arg", "what"}
                /\ result.error.originating_arg = FirstFailure(Base)
                /\ LET n == FirstFailure(Base)
                       e == deref(argv, n)
                   IN  /\ first \in {n, n + 1}
                       /\ Quotes(result.error.what, e)
                       /\ IsCluster(e) =>
                            \E k \in 2..Len(e) :
                               /\ FailsAt(e, k, n + 1 < last)
                               /\ result.error.what[2] = <<e[k]>>
                               /\ \A j \in 2..(k - 1) :
                                     ~FailsAt(e, j, n + 1 < last))
    /\ [][ /\ result' # NoResult => pc' # "parse"
           /\ (result # NoResult /\ result' # result)
                => /\ pc = "parse_argv_return"
                   /\ ~result.has_value /\ ~result'.has_value
                   /\ result'.error.what = result.error.what
                   /\ result'.error.originating_arg
                        = result.error.originating_arg + 1
         ]_vars

\* C5 witness: the first element is a cluster whose first character was
\* recorded in the local accumulator and whose second and third characters
\* are no declared flags, an element that cannot be accepted follows; the
\* call returned the error of the second character and no accumulator
C5_Witness ==
    /\ Returned
    /\ ~result.has_value
    /\ Base + 1 < last
    /\ deref(argv, Base) = <<"-", "n", "u", "q">>
    /\ Fails(deref(argv, Base + 1), Base + 2 < last)
    /\ count(res, <<"n", "o", "a", "r", "g">>) = 1
    /\ result.error.originating_arg = Base
    /\ result.error.what[2] = <<"u">>
    /\ "value" \notin DOMAIN result

\* C6: after a successful call, for every declared option without argument
\* the count under its long flag is the number of times the input gave it,
\* as its short flag in a cluster or as "--" and its long flag, and its
\* arguments are empty.
C6_NoArgumentCount ==
    (Returned /\ result.has_value)
    => \A o \in Opts :
          NoArg(o)
          => /\ count(result.value, o.long_flag) = Occurrences(Base, o)
             /\ get_arguments_for_option(result.value, o.long_flag) = <<>>

\* C6 witness: a successful call whose input gave one option without
\* argument four times, in two clusters and once in long form, mixed with
\* another option
C6_Witness ==
    /\ Returned
    /\ result.has_value
    /\ Base + 3 = last
    /\ \E o \in Opts, q \in Opts :
          /\ NoArg(o) /\ o # q
          /\ \E a, b, c \in Base..(last - 1) :
                /\ IsCluster(deref(argv, a)) /\ GivenIn(deref(argv, a), o) = 2
                /\ GivenIn(deref(argv, a), q) = 1
                /\ IsLong(deref(argv, b), o)
                /\ IsCluster(deref(argv, c)) /\ GivenIn(deref(argv, c), o) = 1
          /\ count(result.value, o.long_flag) = 4
          /\ count(result.value, q.long_flag) >= 1
          /\ get_arguments_for_option(result.value, o.long_flag) = <<>>

\* C7: every accumulator, while parse or direct add_parsed_option calls fill
\* it and when parse returns it, has one entry per name with count >= 1 and
\* at most count arguments; an entry never changes its name or place, its
\* count and arguments only grow, and new entries are appended, so the
\* entries stand in order of first occurrence; the entry names of a returned
\* accumulator are the names the input gave, in order of first occurrence.
C7_ParsedOptionEntries ==
    /\ [](/\ OneEntryPerName(res)
          /\ (result # NoResult /\ result.has_value)
               => OneEntryPerName(result.value)
          /\ (Returned /\ result.has_value)
               => EntryNames(result.value)
                    = FirstOccurrences(NamesGiven(Base)))
    /\ [][ LET old == get_parsed_options(res)
               new == get_parsed_options(res')
           IN  /\ Len(old) <= Len(new)
               /\ \A i \in 1..Len(old) :
                     /\ new[i].name = old[i].name
                     /\ new[i].count >= old[i].count
                     /\ SubSeq(new[i].arguments, 1, Len(old[i].arguments))
                          = old[i].arguments
         ]_vars

\* C7 witness: a returned accumulator with three entries, the first for the
\* option declared last, one of them with two occurrences and one argument
C7_Witness ==
    /\ Returned
    /\ result.has_value
    /\ Len(get_parsed_options(result.value)) = 3
    /\ get_parsed_options(result.value)[1].name = options[Len(options)].long_flag
    /\ \E i \in 1..3 :
          /\ get_parsed_options(result.value)[i].count = 2
          /\ Len(get_parsed_options(result.value)[i].arguments) = 1

\* C8: after a successful call, for every declared option the count is the
\* number of its occurrences in the input, with a value or bare, its
\* arguments are the values captured, in order, and
\* get_last_argument_for_option is the last of them, or absent if there is
\* none.
C8_CountArgumentsLast ==
    (Returned /\ result.has_value)
    => \A o \in Opts :
          LET values == ValuesGiven(Base, o)
          IN  /\ count(result.value, o.long_flag) = Occurrences(Base, o)
              /\ get_arguments_for_option(result.value, o.long_flag) = values
              /\ get_last_argument_for_option(result.value, o.long_flag)
                   = IF values = <<>> THEN nullopt
                     ELSE [has_value |-> TRUE, value |-> values[Len(values)]]

\* C8 witness: a successful call on three occurrences of one option, two
\* with different values and the last one bare: two arguments, and the last
\* argument is the second value; an option not given has no last argument
C8_Witness ==
    /\ Returned
    /\ result.has_value
    /\ Base + 3 = last
    /\ \E o \in Opts :
          /\ IsLong(deref(argv, last - 1), o)
          /\ count(result.value, o.long_flag) = 3
          /\ Len(get_arguments_for_option(result.value, o.long_flag)) = 2
          /\ get_arguments_for_option(result.value, o.long_flag)[1]
               # get_arguments_for_option(result.value, o.long_flag)[2]
          /\ get_last_argument_for_option(result.value, o.long_flag)
               = [has_value |-> TRUE,
                  value |-> get_arguments_for_option(result.value,
                                                     o.long_flag)[2]]
    /\ \E p \in Opts :
          /\ ~NoArg(p)
          /\ count(result.value, p.long_flag) = 0
          /\ get_last_argument_for_option(result.value, p.long_flag) = nullopt

\* C8 witness, bare only: an option with optional argument was given twice
\* without value and has no last argument
C8_WitnessOnlyBare ==
    /\ Returned
    /\ result.has_value
    /\ \E o \in Opts :
          /\ OptionalArg(o)
          /\ count(result.value, o.long_flag) = 2
          /\ get_arguments_for_option(result.value, o.long_flag) = <<>>
          /\ get_last_argument_for_option(result.value, o.long_flag) = nullopt

\* C9: when the loop examines a short cluster in which a character reached
\* as a flag names an option that takes an argument, optional or required,
\* and characters follow it, the step appends the whole rest of the element
\* to that option's arguments and moves on by one element without an error:
\* the characters of the rest give no occurrence of any option, and the
\* next element is not consumed.
C9_RestOfClusterIsArgument ==
    [][ \A o \in Opts :
          ( /\ InLoop
            /\ IsCluster(Cur)
            /\ ~NoArg(o) )
          => \A j \in 2..(Len(Cur) - 1) :
                (Reached(Cur, j) /\ IsFlagAt(Cur, j, o))
                => /\ get_arguments_for_option(res', o.long_flag)
                        = Append(get_arguments_for_option(res, o.long_flag),
                                 SubSeq(Cur, j + 1, Len(Cur)))
                   /\ count(res', o.long_flag) = count(res, o.long_flag) + 1
                   /\ first' = first + 1
                   /\ idx' = idx + 1
                   /\ pc' = "parse"
                   /\ result' = result
                   /\ get_positional_arguments(res')
                        = get_positional_arguments(res)
                   /\ \A p \in Opts \ {o} :
                         /\ count(res', p.long_flag)
                              = count(res, p.long_flag) + FlagsBefore(Cur, j, p)
                         /\ get_arguments_for_option(res', p.long_flag)
                              = get_arguments_for_option(res, p.long_flag)
      ]_vars

\* C9 witness: the first element was the short flag of an option with
\* optional argument followed by a character that is no declared flag; that
\* character is the option's argument, and the loop stands at the element
\* behind the cluster
C9_Witness ==
    /\ pc = "parse"
    /\ first = Base + 1
    /\ first < last
    /\ IsCluster(deref(argv, Base))
    /\ Len(deref(argv, Base)) = 3
    /\ \A p \in Opts : ~IsFlagAt(deref(argv, Base), 3, p)
    /\ \E o \in Opts :
          /\ OptionalArg(o)
          /\ IsFlagAt(deref(argv, Base), 2, o)
          /\ get_arguments_for_option(res, o.long_flag)
               = << <<deref(argv, Base)[3]>> >>

\* C9 witness, required argument: the rest of the cluster is the short flag
\* of a declared option, recorded as the argument and not as an occurrence
C9_WitnessRequired ==
    /\ pc = "parse"
    /\ first = Base + 1
    /\ first < last
    /\ IsCluster(deref(argv, Base))
    /\ Len(deref(argv, Base)) = 3
    /\ \E o \in Opts, p \in Opts :
          /\ RequiredArg(o)
          /\ IsFlagAt(deref(argv, Base), 2, o)
          /\ IsFlagAt(deref(argv, Base), 3, p)
          /\ get_arguments_for_option(res, o.long_flag) = << p.short_flag >>
          /\ count(res, p.long_flag) = 0

\* C10: when the loop examines a short cluster whose k characters all name
\* declared options without argument, the step adds to each option's count
\* the number of the characters that are its flag, k occurrences in all and
\* no argument, appends entries for the options not seen before in the order
\* of the characters, and moves on by one element.
C10_ClusterOfFlags ==
    [][ ( /\ InLoop
          /\ IsCluster(Cur)
          /\ \A j \in 2..Len(Cur) : \E o \in Opts : IsFlagAt(Cur, j, o) /\ NoArg(o) )
        => /\ \A o \in Opts :
                 /\ count(res', o.long_flag)
                      = count(res, o.long_flag)
                        + Cardinality({ j \in 2..Len(Cur) : IsFlagAt(Cur, j, o) })
                 /\ get_arguments_for_option(res', o.long_flag)
                      = get_arguments_for_option(res, o.long_flag)
           /\ SumCounts(get_parsed_options(res'))
                = SumCounts(get_parsed_options(res)) + Len(Cur) - 1
           /\ EntryNames(res')
                = FirstOccurrences(
                      EntryNames(res)
                      \o [ j \in 1..(Len(Cur) - 1) |-> LongFlagOf(Cur[j + 1]) ])
           /\ get_positional_arguments(res') = get_positional_arguments(res)
           /\ first' = first + 1
           /\ idx' = idx + 1
           /\ pc' = "parse"
           /\ result' = result
      ]_vars

\* C10 witness: the first two elements were clusters of flags without
\* argument, of two and of three characters, the second repeating a
\* character; the entries stand in the order of the first cluster's
\* characters, which is not the order of declaration, five occurrences are
\* counted, and the loop stands at the element behind the clusters
C10_Witness ==
    /\ pc = "parse"
    /\ first = Base + 2
    /\ first < last
    /\ Len(deref(argv, Base)) = 3
    /\ Len(deref(argv, Base + 1)) = 4
    /\ \A k \in {Base, Base + 1} :
          /\ IsCluster(deref(argv, k))
          /\ \A j \in 2..Len(deref(argv, k)) :
                \E o \in Opts : IsFlagAt(deref(argv, k), j, o) /\ NoArg(o)
    /\ deref(argv, Base + 1)[2] = deref(argv, Base + 1)[4]
    /\ EntryNames(res) = << LongFlagOf(deref(argv, Base)[2]),
                            LongFlagOf(deref(argv, Base)[3]) >>
    /\ EntryNames(res)[1] = options[Len(options)].long_flag
    /\ SumCounts(get_parsed_options(res)) = 5
    /\ \E i \in 1..2 : get_parsed_options(res)[i].count = 3

\* C11: when the loop examines an option that requires an argument, given as
\* --name without "=" or as the last character of a short cluster, and no
\* element follows, parse returns an error for a missing required argument
\* that names the option as it was given and carries the index of the
\* element; no accumulator is returned and no occurrence of the option is
\* recorded.
C11_MissingRequiredAtEnd ==
    [][ \A o \in Opts :
          ( /\ InLoop
            /\ RequiredArg(o)
            /\ IsLong(Cur, o) \/ IsLastOfCluster(Cur, o)
            /\ first + 1 = last )
          => /\ pc' # "parse"
             /\ ~result'.has_value
             /\ "value" \notin DOMAIN result'
             /\ result'.error.originating_arg = idx
             /\ result'.error.what
                  = IF IsLong(Cur, o)
                    THEN << "missing required argument for '--",
                            o.long_flag, "'" >>
                    ELSE << "missing required argument for '",
                            o.short_flag, "' in '-",
                            SubSeq(Cur, 2, Len(Cur)), "'" >>
             /\ count(res', o.long_flag) = count(res, o.long_flag)
             /\ get_arguments_for_option(res', o.long_flag)
                  = get_arguments_for_option(res, o.long_flag)
      ]_vars

\* C11 witness: a call on at least two elements whose last element is a
\* short cluster ending in the flag of an option that requires an argument
\* has failed with the error for the missing argument, and that option has no
\* occurrence in the local accumulator
C11_Witness ==
    /\ Returned
    /\ Base + 1 < last
    /\ ~result.has_value
    /\ result.error.what[1] = "missing required argument for '"
    /\ \E o \in Opts :
          /\ RequiredArg(o)
          /\ IsLastOfCluster(deref(argv, last - 1), o)
          /\ Len(deref(argv, last - 1)) > 2
          /\ count(res, o.long_flag) = 0

\* C11 witness, long form: the last element is "--" and the long flag of an
\* option that requires an argument, and the call has failed with the error
\* for the missing argument
C11_WitnessLong ==
    /\ Returned
    /\ Base + 1 < last
    /\ ~result.has_value
    /\ result.error.what[1] = "missing required argument for '--"
    /\ \E o \in Opts :
          /\ RequiredArg(o)
          /\ IsLong(deref(argv, last - 1), o)
          /\ count(res, o.long_flag) = 0

\* C12: when the loop examines a long option element with "=" whose name is
\* the long flag of a declared option without argument, parse returns the
\* error for an extraneous argument, quoting the element behind "--" and
\* carrying its index, whatever stands behind "=" and also when nothing
\* does; no accumulator is returned and the local one is left as it was.
C12_ExtraneousArgument ==
    [][ \A o \in Opts :
          ( /\ InLoop
            /\ IsLongElement(Cur)
            /\ HasInline(Cur)
            /\ LongName(Cur) = o.long_flag
            /\ NoArg(o) )
          => /\ pc' # "parse"
             /\ ~result'.has_value
             /\ "value" \notin DOMAIN result'
             /\ result'.error.originating_arg = idx
             /\ result'.error.what
                  = << "extraneous argument in '--",
                       SubSeq(Cur, 3, Len(Cur)), "'" >>
             /\ res' = res
             /\ count(res', o.long_flag) = count(res, o.long_flag)
      ]_vars

\* C12 witness: a call whose accepted first element gave an option without
\* argument has failed at a later element that is "--", the same option's
\* long flag and "=" with nothing behind it; the option keeps its one
\* occurrence
C12_Witness ==
    /\ Returned
    /\ ~result.has_value
    /\ result.error.what[1] = "extraneous argument in '--"
    /\ result.error.originating_arg > Base
    /\ \E o \in Opts :
          /\ NoArg(o)
          /\ GivenIn(deref(argv, Base), o) = 1
          /\ deref(argv, result.error.originating_arg)
               = <<"-", "-">> \o o.long_flag \o <<"=">>
          /\ count(res, o.long_flag) = 1

\* C13: when the loop examines a long option element whose name, the text
\* between "--" and the first "=" or the end, is not equal to the long flag
\* of any declared option, parse returns the error for an unrecognized long
\* option, quoting that name and carrying the element's index, and the local
\* accumulator is left as it was; when the name is equal to a declared long
\* flag, no such error is returned.
C13_ExactLongNames ==
    [][ (InLoop /\ IsLongElement(Cur))
        => IF \A o \in Opts : o.long_flag # LongName(Cur)
           THEN /\ pc' # "parse"
                /\ ~result'.has_value
                /\ "value" \notin DOMAIN result'
                /\ result'.error.originating_arg = idx
                /\ result'.error.what
                     = << "unrecognized long option '--", LongName(Cur), "'" >>
                /\ res' = res
           ELSE \/ result' = result
                \/ result'.has_value
                \/ result'.error.what[1] # "unrecognized long option '--"
      ]_vars

\* C13 witness: a call has failed with the error for an unrecognized long
\* option at an element whose name is a declared long flag without its last
\* character
C13_Witness ==
    /\ Returned
    /\ ~result.has_value
    /\ result.error.what[1] = "unrecognized long option '--"
    /\ \E o \in Opts :
          /\ Len(o.long_flag) > 1
          /\ result.error.what[2]
               = SubSeq(o.long_flag, 1, Len(o.long_flag) - 1)
          /\ LongName(deref(argv, result.error.originating_arg))
               = result.error.what[2]

\* C13 witness, longer name: the name of the failing element is a declared
\* long flag followed by one more character
C13_WitnessLonger ==
    /\ Returned
    /\ ~result.has_value
    /\ result.error.what[1] = "unrecognized long option '--"
    /\ \E o \in Opts :
          /\ Len(result.error.what[2]) = Len(o.long_flag) + 1
          /\ starts_with(result.error.what[2], o.long_flag)

\* C13 witness, short flag as name: the name of the failing element is the
\* short flag of a declared option
C13_WitnessShortFlag ==
    /\ Returned
    /\ ~result.has_value
    /\ result.error.what[1] = "unrecognized long option '--"
    /\ \E o \in Opts : result.error.what[2] = o.short_flag

\* C14: when the loop examines an element that does not start with "-", or
\* is "-", the step appends it verbatim to the positional arguments, records
\* no option and moves on by one element without returning; a successful
\* call returns as positional arguments the examined nonoption elements in
\* order (followed by what stands behind "--"), and as counts the
\* occurrences of the options wherever they stand, before or behind
\* nonoption elements.
C14_NonoptionIsPositional ==
    /\ [][ (InLoop /\ IsNonoption(Cur))
           => /\ get_positional_arguments(res')
                   = Append(get_positional_arguments(res), Cur)
              /\ get_parsed_options(res') = get_parsed_options(res)
              /\ res'.lookup = res.lookup
              /\ first' = first + 1
              /\ idx' = idx + 1
              /\ pc' = "parse"
              /\ result' = result
         ]_vars
    /\ []((Returned /\ result.has_value)
           => /\ get_positional_arguments(result.value) = PositionalsGiven(Base)
              /\ \A o \in Opts :
                    count(result.value, o.long_flag) = Occurrences(Base, o))

\* C14 witness: a successful call on "-", an option element and an empty
\* element, in this order: the first and the third are the positional
\* arguments, and the option between them is counted
C14_Witness ==
    /\ Returned
    /\ result.has_value
    /\ Base + 3 = last
    /\ deref(argv, Base) = <<"-">>
    /\ deref(argv, Base + 2) = <<>>
    /\ \E o \in Opts :
          /\ GivenIn(deref(argv, Base + 1), o) = 1
          /\ count(result.value, o.long_flag) = 1
    /\ get_positional_arguments(result.value) = << <<"-">>, <<>> >>

\* C15: after a successful call, every declared option the input gave, by
\* its short flag, by its long flag or by both, has exactly one entry, named
\* by its long flag, whose count and arguments are those of all its
\* occurrences together; an option the input did not give has no entry; and
\* for an option whose short flag differs from its long flag no entry is
\* named by the short flag: count is 0, the arguments are empty and the last
\* argument is absent under that text.
C15_RecordedUnderLongFlag ==
    (Returned /\ result.has_value)
    => LET po == get_parsed_options(result.value)
       IN  \A o \in Opts :
              /\ Cardinality({ i \in 1..Len(po) : po[i].name = o.long_flag })
                   = IF Occurrences(Base, o) > 0 THEN 1 ELSE 0
              /\ \A i \in 1..Len(po) :
                    po[i].name = o.long_flag
                    => /\ po[i].count = Occurrences(Base, o)
                       /\ po[i].arguments = ValuesGiven(Base, o)
              /\ o.short_flag # o.long_flag
                   => /\ \A i \in 1..Len(po) : po[i].name # o.short_flag
                      /\ count(result.value, o.short_flag) = 0
                      /\ get_arguments_for_option(result.value, o.short_flag)
                           = <<>>
                      /\ get_last_argument_for_option(result.value,
                                                      o.short_flag) = nullopt

\* C15 witness: a successful call gave one option in a short cluster with a
\* value and in long form with another value; its one entry, under the long
\* flag, has both occurrences and both values, and nothing is recorded under
\* the short flag
C15_Witness ==
    /\ Returned
    /\ result.has_value
    /\ \E o \in Opts, a, b \in Base..(last - 1) :
          /\ o.short_flag # o.long_flag
          /\ IsCluster(deref(argv, a))
          /\ GivenIn(deref(argv, a), o) = 1
          /\ IsLongElement(deref(argv, b))
          /\ LongName(deref(argv, b)) = o.long_flag
          /\ count(result.value, o.long_flag) = 2
          /\ Len(get_arguments_for_option(result.value, o.long_flag)) = 2
          /\ count(result.value, o.short_flag) = 0

\* C15 witness, short form only: a successful call on short clusters alone
\* has entries, none of them under a short flag
C15_WitnessShortOnly ==
    /\ Returned
    /\ result.has_value
    /\ Base < last
    /\ \A k \in Base..(last - 1) : IsCluster(deref(argv, k))
    /\ get_parsed_options(result.value) # <<>>
    /\ \A o \in Opts : count(result.value, o.short_flag) = 0
    /\ \E o \in Opts : count(result.value, o.long_flag) = 3

\* C16: in the ParseResult of a successful call, for every name the input
\* did not give as an option (a declared long flag not given, a short flag,
\* a flag with its dashes, the empty name, an undeclared name, the text of a
\* positional argument or of a value) count is 0,
\* get_arguments_for_option is empty and get_last_argument_for_option is
\* absent; and looking a name up leaves the ParseResult as it was.
C16_NeverSeen ==
    /\ []((Returned /\ result.has_value)
           => \A name \in LookupNames :
                 (\A o \in Opts :
                     o.long_flag = name => Occurrences(Base, o) = 0)
                 => /\ count(result.value, name) = 0
                    /\ get_arguments_for_option(result.value, name) = <<>>
                    /\ get_last_argument_for_option(result.value, name)
                         = nullopt)
    /\ [][ (pc = "done" /\ pc' = "looked_up")
           => /\ result' = result
              /\ res' = res
              /\ options' = options
         ]_vars

\* C16 witness: names were looked up in the ParseResult of a successful call
\* that holds an entry with an argument and a positional argument whose text
\* is none of the entry names; a declared option was not given
C16_Witness ==
    /\ pc = "looked_up"
    /\ get_parsed_options(result.value) # <<>>
    /\ get_parsed_options(result.value)[1].arguments # <<>>
    /\ get_positional_arguments(result.value) = << <<"a">> >>
    /\ count(result.value, <<"a">>) = 0
    /\ \E o \in Opts : count(result.value, o.long_flag) = 0

\* C17: a parse_argv call with argc < 1 returns at once an error whose
\* originating_arg is 0, and the loop is never entered.  In a parse_argv
\* call with argc >= 1 the iterator starts behind argv[0] and never stands
\* at it; what the call returns is what the elements from argv[1] on give:
\* on success their positional arguments and option occurrences, on failure
\* the error of the leftmost of them that cannot be accepted, an index of at
\* least 1.
C17_ProgramNameNotParsed ==
    /\ [][ (pc = "call" /\ entry = "parse_argv" /\ argc < 1)
           => /\ pc' = "done"
              /\ ~result'.has_value
              /\ result'.error.originating_arg = 0
              /\ "value" \notin DOMAIN result'
              /\ res' = res /\ first' = first /\ idx' = idx
         ]_vars
    /\ []((entry = "parse_argv" /\ argc >= 1)
           => /\ pc = "parse" => 1 <= first /\ idx = first - 1
              /\ pc = "done" =>
                   IF result.has_value
                   THEN /\ FirstFailure(1) = -1
                        /\ get_positional_arguments(result.value)
                             = PositionalsGiven(1)
                        /\ \A o \in Opts :
                              count(result.value, o.long_flag)
                                = Occurrences(1, o)
                        /\ \A i \in 1..Len(get_parsed_options(result.value)) :
                              \E o \in Opts :
                                 /\ get_parsed_options(result.value)[i].name
                                      = o.long_flag
                                 /\ Occurrences(1, o) > 0
                   ELSE /\ result.error.originating_arg >= 1
                        /\ result.error.originating_arg = FirstFailure(1))

\* C17 witness: a parse_argv call whose argv[0] is "--" and whose argv[1] is
\* an option element has succeeded; the option is counted, and there is no
\* positional argument
C17_Witness ==
    /\ pc = "done"
    /\ entry = "parse_argv"
    /\ argc = 2
    /\ deref(argv, 0) = <<"-", "-">>
    /\ result.has_value
    /\ \E o \in Opts :
          /\ GivenIn(deref(argv, 1), o) = 1
          /\ count(result.value, o.long_flag) = 1
    /\ get_positional_arguments(result.value) = <<>>

\* C17 witness, undeclared flag: argv[0] is a cluster of an undeclared flag
\* and the call on it alone has succeeded with nothing recorded
C17_WitnessUndeclared ==
    /\ pc = "done"
    /\ entry = "parse_argv"
    /\ argc = 1
    /\ IsCluster(deref(argv, 0))
    /\ \A o \in Opts : ~IsFlagAt(deref(argv, 0), 2, o)
    /\ result = expected(EmptyParseResult)

\* C17 witness, declared flag: argv[0] is a cluster of a declared flag and
\* that option has no occurrence in the returned ParseResult
C17_WitnessDeclared ==
    /\ pc = "done"
    /\ entry = "parse_argv"
    /\ argc >= 2
    /\ IsCluster(deref(argv, 0))
    /\ result.has_value
    /\ \E o \in Opts :
          /\ IsFlagAt(deref(argv, 0), 2, o)
          /\ count(result.value, o.long_flag) = 0
    /\ get_parsed_options(result.value) # <<>>

\* C17 witness, no program name: a parse_argv call with argc = 0 has failed
\* with originating_arg 0
C17_WitnessNoProgramName ==
    /\ pc = "done"
    /\ entry = "parse_argv"
    /\ argc = 0
    /\ ~result.has_value
    /\ result.error.originating_arg = 0
    /\ res = EmptyParseResult

\* C18: no step of a parse call changes the option table, whether it goes
\* on, returns an accumulator or returns an error.  When two parse calls on
\* one table take their steps, one element at a time, in any interleaving,
\* each call that has returned holds the result parse gives on its own
\* argument list when nothing else runs; while a call is in its loop, the
\* call that is not running keeps its locals, and a returned accumulator
\* counts for each option the occurrences in its own argument list only.
C18_CallsDoNotInterfere ==
    /\ [][ options' = options ]_vars
    /\ [](/\ pc = "done"
               => result = parse(options, argv, 0, Len(argv), 0,
                                 EmptyParseResult)
          /\ other.pc = "done"
               => other.result = parse(options, other.argv, 0,
                                       Len(other.argv), 0, EmptyParseResult)
          /\ (pc = "done" /\ result.has_value)
               => \A o \in Opts :
                     count(result.value, o.long_flag) = Occurrences(0, o))
    /\ [][ pc = "parse" /\ pc' # "call" /\ other'.id = other.id
           => other' = other
         ]_vars

\* C18 witness: both calls are inside their loops on different argument
\* lists, the one behind an option and its argument, the other behind its
\* first element with one more to come; the one has recorded an option the
\* other has not, and the other a positional argument the one has not
C18_Witness ==
    /\ pc = "parse"
    /\ other.pc = "parse"
    /\ argv # other.argv
    /\ first = 2
    /\ other.first = 1 /\ other.first < other.last
    /\ get_parsed_options(res) # <<>>
    /\ get_parsed_options(other.res) = <<>>
    /\ get_positional_arguments(res) = <<>>
    /\ get_positional_arguments(other.res) # <<>>

\* C18 witness, both returned: the one call has returned an accumulator with
\* an argument, the other, on another argument list, an error
C18_WitnessReturned ==
    /\ pc = "done"
    /\ other.pc = "done"
    /\ result.has_value
    /\ ~other.result.has_value
    /\ \E o \in Opts : get_arguments_for_option(result.value, o.long_flag) # <<>>
    /\ Len(argv) = 2 /\ Len(other.argv) = 2

\* C19 as claimed: after any sequence of add_option calls, every option of
\* the table has a non-empty long_flag.
C19_LongFlagNonEmpty ==
    \A k \in 1..Len(options) : options[k].long_flag # <<>>

\* C19: after any sequence of add_option calls the table holds one option
\* per call, in the order of the calls; the long_flag of an option is the
\* long flag given, or, when none was given, the first character of the
\* short flag given; it is empty exactly when the call gave neither a short
\* nor a long flag.
C19_LongFlagFallsBack ==
    /\ Len(options) = Len(declared)
    /\ \A k \in 1..Len(options) :
          /\ options[k].long_flag
               = IF declared[k].long_flag # <<>> THEN declared[k].long_flag
                 ELSE IF declared[k].short_flag # <<>>
                 THEN << declared[k].short_flag[1] >>
                 ELSE <<>>
          /\ options[k].long_flag = <<>>
               <=> (declared[k].short_flag = <<>> /\ declared[k].long_flag = <<>>)

\* C19 witness: a table of two options declared without long flag, the one
\* with a short flag of two characters, the other with a short flag of one;
\* the long flag of each is the first character of its short flag
C19_Witness ==
    /\ Len(options) = 2
    /\ declared[1].long_flag = <<>> /\ declared[2].long_flag = <<>>
    /\ Len(declared[1].short_flag) = 2
    /\ Len(declared[2].short_flag) = 1
    /\ options[1].long_flag = << declared[1].short_flag[1] >>
    /\ options[2].long_flag = declared[2].short_flag

\* C19 witness, no flag at all: an option declared with neither flag stands
\* in the table with an empty long_flag
C19_WitnessNoFlag ==
    /\ Len(options) = 2
    /\ declared[2].short_flag = <<>> /\ declared[2].long_flag = <<>>
    /\ options[2].long_flag = <<>>

\* C20 as claimed: the argument mode of every option of the table is the one
\* its placeholder stood for when it was declared, whether or not a long
\* flag was given with it: no argument for the empty placeholder, an
\* optional one for a placeholder starting with "[", a required one for any
\* other; and parse treats an element that gives the option accordingly: it
\* rejects an inline value exactly for the empty placeholder, and without
\* inline value it takes the next element, or fails when there is none,
\* exactly for a placeholder that stands for a required argument.
C20_ModeFromPlaceholder ==
    /\ [](\A k \in 1..Len(options) :
             /\ NoArg(options[k]) <=> DeclaredNoArg(declared[k].arg_name)
             /\ OptionalArg(options[k])
                  <=> DeclaredOptionalArg(declared[k].arg_name)
             /\ RequiredArg(options[k])
                  <=> DeclaredRequiredArg(declared[k].arg_name)
             /\ takes_argument(options[k])
                  <=> ~DeclaredNoArg(declared[k].arg_name)
             /\ requires_argument(options[k])
                  <=> DeclaredRequiredArg(declared[k].arg_name))
    /\ [][ \A k \in 1..Len(options) :
              (InLoop /\ FoundAt(Cur, k))
              => IF IsLongElement(Cur) /\ HasInline(Cur)
                 THEN (pc' # "parse")
                        <=> DeclaredNoArg(declared[k].arg_name)
                 ELSE IF DeclaredRequiredArg(declared[k].arg_name)
                 THEN IF first + 1 < last
                      THEN /\ first' = first + 2
                           /\ get_arguments_for_option(res',
                                                       options[k].long_flag)
                                = Append(get_arguments_for_option(res,
                                             options[k].long_flag),
                                         deref(argv, first + 1))
                      ELSE pc' # "parse" /\ ~result'.has_value
                 ELSE /\ first' = first + 1
                      /\ pc' = "parse"
                      /\ get_arguments_for_option(res', options[k].long_flag)
                           = get_arguments_for_option(res,
                                                      options[k].long_flag)
         ]_vars

\* a call of convert_to for an integral T has returned
Converted == pc = "done" /\ call.fn = "convert_to"

\* the input of the call is an optional `-` followed by digits valid in the
\* base of the call: nothing else before or behind the digits, the base is
\* the radix the digits are written in (zeros may lead them), or the base is
\* detected and the digits are decimal
SignAndDigits ==
    LET in == call.input
    IN  /\ in.lead \in { <<>>, <<"-">> }
        /\ in.n >= 0
        /\ in.trailer = <<>>
        /\ \/ call.base = in.radix /\ in.prefix \in { <<>>, <<"0">> }
           \/ call.base = 0 /\ in.radix = 10 /\ in.prefix = <<>>

\* the value such an input denotes
Denoted == IF call.input.lead = <<"-">> THEN 0 - call.input.n ELSE call.input.n

\* C21: for a signed w-bit T and an input of an optional `-` followed by
\* digits valid in the base, convert_to succeeds exactly when the denoted
\* value lies in [-2^(w-1), 2^(w-1)-1] and then returns that value; every
\* other value fails with the out-of-range condition
C21_SignedRange ==
    (Converted /\ call.T.signed /\ SignAndDigits)
    => LET w == call.T.bits
       IN  IF 0 - 2 ^ (w - 1) <= Denoted /\ Denoted <= 2 ^ (w - 1) - 1
           THEN call.result = [has_value |-> TRUE, value |-> Denoted]
           ELSE call.result = [has_value |-> FALSE,
                               error |-> "result_out_of_range"]

\* convert_to<int8_t>("-128") has returned -128
C21_Witness ==
    /\ Converted
    /\ call.T = [signed |-> TRUE, bits |-> 8]
    /\ call.sv = <<"-", "1", "2", "8">>
    /\ call.base = 10
    /\ call.result = [has_value |-> TRUE, value |-> 0 - 128]

\* convert_to<int8_t>("128") and convert_to<int8_t>("-129") have failed
C21_WitnessRejected ==
    /\ Converted
    /\ call.T = [signed |-> TRUE, bits |-> 8]
    /\ call.sv \in { <<"1", "2", "8">>, <<"-", "1", "2", "9">> }
    /\ ~call.result.has_value

\* C22: for an unsigned w-bit T, convert_to of `-` followed by a magnitude m
\* succeeds exactly when m <= 2^w - 1 and returns (2^w - m) mod 2^w, and fails
\* when m > 2^w - 1
C22_UnsignedNegation ==
    (Converted /\ ~call.T.signed /\ SignAndDigits
       /\ call.input.lead = <<"-">>)
    => LET w == call.T.bits
           m == call.input.n
       IN  IF m <= 2 ^ w - 1
           THEN call.result
                  = [has_value |-> TRUE, value |-> (2 ^ w - m) % (2 ^ w)]
           ELSE ~call.result.has_value

\* convert_to<uint8_t>("-1") has returned 255
C22_Witness ==
    /\ Converted
    /\ call.T = [signed |-> FALSE, bits |-> 8]
    /\ call.sv = <<"-", "1">>
    /\ call.base = 10
    /\ call.result = [has_value |-> TRUE, value |-> 255]

\* convert_to<uint8_t>("-255") has returned 1, convert_to<uint8_t>("-0") has
\* returned 0, and convert_to<uint8_t>("-256") has failed
C22_WitnessLimits ==
    /\ Converted
    /\ call.T = [signed |-> FALSE, bits |-> 8]
    /\ call.base = 10
    /\ \/ call.sv = <<"-", "2", "5", "5">>
          /\ call.result = [has_value |-> TRUE, value |-> 1]
       \/ call.sv = <<"-", "0">>
          /\ call.result = [has_value |-> TRUE, value |-> 0]
       \/ call.sv = <<"-", "2", "5", "6">> /\ ~call.result.has_value

RECURSIVE Reading(_, _, _)
\* the number the text denotes in positional notation of the base, its
\* characters being digits of the base in either case; cap if it is larger
Reading(text, base, cap) ==
    IF text = <<>> THEN 0
    ELSE LET ch    == text[Len(text)]
             upper == << "A", "B", "C", "D", "E", "F" >>
             digit == IF \E k \in 1..16 : DigitCharacters[k] = ch
                      THEN (CHOOSE k \in 1..16 : DigitCharacters[k] = ch) - 1
                      ELSE 9 + CHOOSE k \in 1..6 : upper[k] = ch
         IN  Min(Reading(SubSeq(text, 1, Len(text) - 1), base, cap) * base
                   + digit, cap)

\* the text consists of digits of the base, at least one
AllDigits(text, base) ==
    /\ text # <<>>
    /\ \A i \in 1..Len(text) :
          text[i] \in { DigitCharacters[k] : k \in 1..Min(base, 16) }
                        \cup (IF base = 16
                              THEN {"A", "B", "C", "D", "E", "F"} ELSE {})

\* what the conversion of the magnitude m, negated or not, to T gives: the
\* value when it is one of T (an unsigned T wraps a negated one), no value
\* otherwise
Outcome(T, negated, m) ==
    LET w == T.bits
        v == IF negated THEN 0 - m ELSE m
    IN  IF T.signed
        THEN IF 0 - 2 ^ (w - 1) <= v /\ v <= 2 ^ (w - 1) - 1
             THEN [has_value |-> TRUE, value |-> v]
             ELSE [has_value |-> FALSE]
        ELSE IF m <= 2 ^ w - 1
             THEN [has_value |-> TRUE,
                   value |-> IF negated THEN (2 ^ w - m) % (2 ^ w) ELSE m]
             ELSE [has_value |-> FALSE]

\* the input of the call as it is to be read: whether a `-` leads it, the
\* base (with base 0: 16 behind 0x/0X, 2 behind 0b/0B, 8 behind a 0 that
\* another character follows, 10 otherwise), and the digits, which are the
\* text behind the `-` and behind the prefix of base 16 or 2
Resolved ==
    LET negated == call.sv # <<>> /\ call.sv[1] = "-"
        body    == IF negated THEN SubSeq(call.sv, 2, Len(call.sv))
                   ELSE call.sv
        two     == IF Len(body) >= 2 THEN SubSeq(body, 1, 2) ELSE <<>>
        hex     == two \in { <<"0", "x">>, <<"0", "X">> }
        bin     == two \in { <<"0", "b">>, <<"0", "B">> }
        strip   == \/ hex /\ call.base \in {0, 16}
                   \/ bin /\ call.base \in {0, 2}
    IN  [negated |-> negated,
         base    |-> IF call.base # 0 THEN call.base
                     ELSE IF hex THEN 16
                     ELSE IF bin THEN 2
                     ELSE IF two # <<>> /\ two[1] = "0" THEN 8
                     ELSE 10,
         digits  |-> IF strip THEN SubSeq(body, 3, Len(body)) ELSE body]

\* C23: with base 0, after an optional leading `-`, 0x/0X gives base 16 and
\* 0b/0B gives base 2 with the prefix stripped, a leading 0 followed by any
\* other character gives base 8, and anything else (the single character 0
\* included) gives base 10; with an explicit base of 16 or 2 a matching prefix
\* is stripped if present; the call returns what the digits behind the prefix
\* denote in that base
C23_BaseResolution ==
    Converted
    => LET wanted == Outcome(call.T, Resolved.negated,
                             Reading(Resolved.digits, Resolved.base,
                                     2 ^ call.T.bits))
       IN  IF AllDigits(Resolved.digits, Resolved.base)
           THEN /\ call.result.has_value = wanted.has_value
                /\ wanted.has_value => call.result.value = wanted.value
           ELSE ~call.result.has_value

\* convert_to<int8_t>("0x11", 0) has returned 17
C23_Witness ==
    /\ Converted
    /\ call.T = [signed |-> TRUE, bits |-> 8]
    /\ call.sv = <<"0", "x", "1", "1">>
    /\ call.base = 0
    /\ call.result = [has_value |-> TRUE, value |-> 17]

\* base 0 has read "-0B101" as -5, "017" as 15 and "0" as 0; base 16 has read
\* "0X11" as 17 and base 2 has read "0b11" as 3
C23_WitnessForms ==
    /\ Converted
    /\ call.result.has_value
    /\ \/ call.base = 0 /\ call.sv = <<"-", "0", "B", "1", "0", "1">>
          /\ call.result.value = 0 - 5
       \/ call.base = 0 /\ call.sv = <<"0", "1", "7">>
          /\ call.result.value = 15
       \/ call.base = 0 /\ call.sv = <<"0">> /\ call.result.value = 0
       \/ call.base = 16 /\ call.sv = <<"0", "X", "1", "1">>
          /\ call.result.value = 17
       \/ call.base = 2 /\ call.sv = <<"0", "b", "1", "1">>
          /\ call.result.value = 3

\* C24: convert_to for an integral T fails with the invalid-argument
\* condition, and never with the out-of-range condition, for every input
\* whose text after sign and prefix removal is not entirely digits of the
\* resolved base, however large the leading run of digits is
C24_InvalidNotOutOfRange ==
    (Converted /\ ~AllDigits(Resolved.digits, Resolved.base))
    => call.result = [has_value |-> FALSE, error |-> "invalid_argument"]

\* such an input fails with the out-of-range condition only when its leading
\* run of digits denotes more than the unsigned type of the width of T holds
C24_InvalidUnlessOverflown ==
    (Converted /\ ~AllDigits(Resolved.digits, Resolved.base))
    => \/ call.result = [has_value |-> FALSE, error |-> "invalid_argument"]
       \/ /\ call.result = [has_value |-> FALSE,
                            error |-> "result_out_of_range"]
          /\ \E k \in 1..Len(Resolved.digits) :
                LET run == SubSeq(Resolved.digits, 1, k)
                IN  /\ AllDigits(run, Resolved.base)
                    /\ Reading(run, Resolved.base, 2 ^ call.T.bits)
                         > 2 ^ call.T.bits - 1

C25_WitnessLimits ==
    /\ pc = "done"
    /\ call.fn = "convert_to_suffix"
    /\ \/ /\ call.T.signed
          /\ call.mode = "binary"
          /\ call.sv = <<"3", "2", "k">>
          /\ ~call.result.has_value
       \/ /\ ~call.T.signed
          /\ call.mode = "binary"
          /\ call.sv = <<"6", "4", "k">>
          /\ ~call.result.has_value
       \/ /\ ~call.T.signed
          /\ call.mode = "binary"
          /\ call.sv = <<"6", "3", "K">>
          /\ call.result = [has_value |-> TRUE, value |-> 64512]
       \/ /\ ~call.T.signed
          /\ call.mode = "decimal"
          /\ call.sv = <<"-", "6", "5", "k">>
          /\ call.result = [has_value |-> TRUE, value |-> 536]

\* C26: convert_to<bool> returns true exactly for the strings equal, ignoring
\* ASCII case, to yes/true/on/1, false exactly for those equal to
\* no/false/off/0, and fails with invalid-argument for every other string
C26_BoolWords ==
    (pc = "done" /\ call.fn = "convert_to_bool")
    => IF call.sv \in UNION { CaseVariants(w) : w \in TrueWords }
       THEN call.result = [has_value |-> TRUE, value |-> TRUE]
       ELSE IF call.sv \in UNION { CaseVariants(w) : w \in FalseWords }
       THEN call.result = [has_value |-> TRUE, value |-> FALSE]
       ELSE call.result = [has_value |-> FALSE, error |-> "invalid_argument"]

\* convert_to<bool>("tRuE") has returned true
C26_Witness ==
    /\ pc = "done"
    /\ call.fn = "convert_to_bool"
    /\ call.sv = <<"t", "R", "u", "E">>
    /\ call.result = [has_value |-> TRUE, value |-> TRUE]

\* convert_to<bool> has returned false for "oFf" and has failed for the empty
\* string, "tru", "yess" and " true"
C26_WitnessOthers ==
    /\ pc = "done"
    /\ call.fn = "convert_to_bool"
    /\ \/ call.sv = <<"o", "F", "f">>
          /\ call.result = [has_value |-> TRUE, value |-> FALSE]
       \/ /\ call.sv \in { <<>>, <<"t", "r", "u">>, <<"y", "e", "s", "s">>,
                           <<" ", "t", "r", "u", "e">> }
          /\ ~call.result.has_value

\* get_option_help has returned
Helped == pc = "done" /\ call.fn = "get_option_help"

\* the flags part of the help of an option: the short flag behind two spaces
\* and a dash, or four spaces; a long flag that is not the short flag behind
\* ", --" or "  --"; and the placeholder
FlagsText(option) ==
    (IF option.short_flag = <<>> THEN <<" ", " ", " ", " ">>
     ELSE <<" ", " ", "-">> \o option.short_flag)
    \o (IF option.long_flag \in { <<>>, option.short_flag } THEN <<>>
        ELSE (IF option.short_flag = <<>> THEN <<" ", " ">>
              ELSE <<",", " ">>) \o <<"-", "-">> \o option.long_flag)
    \o option.arg_name

\* C27: for every option table and every wrap width, get_option_help returns
\* one block per declared option in declaration order, every block ends with
\* a line break, and the help text of a non-empty table ends with a line
\* break, whatever the descriptions are
C27_BlocksEndWithLineBreak ==
    Helped
    => LET blocks == call.result.option_lines
           help   == call.result.help
       IN  /\ Len(blocks) = Len(options)
           /\ \A k \in 1..Len(blocks) :
                 /\ Len(blocks[k]) > Len(FlagsText(options[k]))
                 /\ SubSeq(blocks[k], 1, Len(FlagsText(options[k])))
                      = FlagsText(options[k])
                 /\ blocks[k][Len(blocks[k])] = "\n"
           /\ options # <<>> => help # <<>> /\ help[Len(help)] = "\n"

\* the same for the options whose description has a character other than a
\* space, whose flags part is too long for the column, or whose help is
\* generated without wrapping; the block of every other option is its flags
\* part alone
C27_LineBreakUnlessBlank ==
    Helped
    => LET blocks == call.result.option_lines
       IN  /\ Len(blocks) = Len(options)
           /\ \A k \in 1..Len(blocks) :
                 IF \/ call.line_width = 0
                    \/ \E i \in 1..Len(options[k].description) :
                          options[k].description[i] # " "
                    \/ Len(FlagsText(options[k])) + 2 > call.result.flags_len
                 THEN /\ SubSeq(blocks[k], 1, Len(FlagsText(options[k])))
                           = FlagsText(options[k])
                      /\ blocks[k][Len(blocks[k])] = "\n"
                 ELSE blocks[k] = FlagsText(options[k])

\* C28: get_option_help completes without an arithmetic underflow for every
\* table and width: the flags column is min(29, longest flags part with its
\* two separating spaces, a short flag and the dashes of a long one counted
\* for every option); a wrap width that is not 0 is raised to at least the
\* column, so the width left for the description is not negative; and the
\* padding behind a flags part is the column less its length only when the
\* flags part and two spaces fit the column, the column itself behind a line
\* break otherwise
C28_NoUnderflow ==
    Helped
    => LET column == IF options = <<>> THEN 0
                     ELSE Min(29,
                              CHOOSE n \in 0..200 :
                                /\ \E k \in 1..Len(options) :
                                      n = 10 + Len(options[k].long_flag)
                                             + Len(options[k].arg_name)
                                /\ \A k \in 1..Len(options) :
                                      n >= 10 + Len(options[k].long_flag)
                                              + Len(options[k].arg_name))
           width  == call.result.line_width
           blocks == call.result.option_lines
       IN  /\ call.result.flags_len = column
           /\ width = IF call.line_width # 0 /\ call.line_width < column
                      THEN column ELSE call.line_width
           /\ call.line_width # 0 => width - column >= 0
           /\ \A k \in 1..Len(options) :
                 LET flags   == FlagsText(options[k])
                     fits    == Len(flags) + 2 <= column
                     padding == IF fits THEN column - Len(flags) ELSE column
                     lead    == (IF fits THEN flags ELSE flags \o <<"\n">>)
                                \o [i \in 1..padding |-> " "]
                 IN  /\ padding >= 0
                     /\ IF call.line_width = 0
                        THEN blocks[k] = lead \o options[k].description
                                           \o <<"\n">>
                        ELSE \/ blocks[k] = flags
                             \/ blocks[k] = flags \o <<"\n">>
                             \/ /\ Len(blocks[k]) > Len(lead)
                                /\ SubSeq(blocks[k], 1, Len(lead)) = lead
                                /\ blocks[k][Len(lead) + 1] # " "

\* get_option_help(1) has returned for a table with an option whose flags
\* part is longer than the column and an option whose flags part fits it
C28_Witness ==
    /\ Helped
    /\ call.line_width = 1
    /\ call.result.flags_len = 29
    /\ call.result.line_width = 29
    /\ \E k \in 1..Len(options) :
          Len(FlagsText(options[k])) + 2 > call.result.flags_len
    /\ \E k \in 1..Len(options) :
          /\ Len(FlagsText(options[k])) + 2 <= call.result.flags_len
          /\ options[k].description = <<"a", "a", " ", "b", "b", " ", "c", "c">>

\* C29: for a long option element containing `=`, the name is the text
\* before the first `=` and the inline value is everything after it,
\* verbatim; on an option taking an argument the value, the empty string
\* included, is appended to the captured arguments and the occurrence is
\* counted, and the next element is not consumed, even for a required
\* argument
C29_InlineValueVerbatim ==
    [][ (InLoop /\ IsLongElement(Cur) /\ HasInline(Cur))
        => \A o \in Opts :
              (o.long_flag = LongName(Cur) /\ ~NoArg(o))
              => /\ pc' = "parse"
                 /\ first' = first + 1
                 /\ idx' = idx + 1
                 /\ count(res', o.long_flag) = count(res, o.long_flag) + 1
                 /\ get_arguments_for_option(res', o.long_flag)
                      = Append(get_arguments_for_option(res, o.long_flag),
                               InlineValue(Cur))
                 /\ get_positional_arguments(res')
                      = get_positional_arguments(res)
      ]_vars

\* "--reqarg=" has given the required-argument option the empty string as
\* its argument, and the element behind it has become a positional argument
C29_Witness ==
    /\ entry = "parse"
    /\ argv = << <<"-", "-", "r", "e", "q", "a", "r", "g", "=">>, <<"a">> >>
    /\ pc = "done"
    /\ result.has_value
    /\ get_arguments_for_option(result.value, <<"r", "e", "q", "a", "r", "g">>)
         = << <<>> >>
    /\ get_positional_arguments(result.value) = << <<"a">> >>

\* "--optarg==" has given the optional-argument option the argument "="
C29_WitnessSecondEquals ==
    /\ pc = "done"
    /\ result.has_value
    /\ \E k \in 1..Len(argv) :
          argv[k] = <<"-", "-", "o", "p", "t", "a", "r", "g", "=", "=">>
    /\ <<"=">> \in { get_arguments_for_option(
                        result.value, <<"o", "p", "t", "a", "r", "g">>)[i] :
                     i \in 1..Len(get_arguments_for_option(
                              result.value,
                              <<"o", "p", "t", "a", "r", "g">>)) }

\* C30: add_option stores the placeholder normalized: starting with `=` and
\* no long flag, the `=` is removed; starting with `[=` and no long flag, the
\* `=` is removed; starting with `[` but not `[=` and a long flag given, `=`
\* is inserted after `[`; non-empty and starting with neither `=` nor `[`,
\* one space is prepended; in every other case it is stored unchanged
C30_PlaceholderNormalized ==
    \A k \in 1..Len(options) :
       LET given   == declared[k].arg_name
           no_long == declared[k].long_flag = <<>>
           at(i)   == IF Len(given) >= i THEN given[i] ELSE ""
           from(i) == SubSeq(given, i, Len(given))
       IN  options[k].arg_name
             = IF at(1) = "=" /\ no_long THEN from(2)
               ELSE IF at(1) = "[" /\ at(2) = "=" /\ no_long
               THEN <<"[">> \o from(3)
               ELSE IF at(1) = "[" /\ at(2) # "=" /\ ~no_long
               THEN <<"[", "=">> \o from(2)
               ELSE IF given # <<>> /\ at(1) \notin {"=", "["}
               THEN <<" ">> \o given
               ELSE given

\* add_option("f", "foo", "[A]", ..) has stored "[=A]", and
\* add_option("f", "", "=A", ..) has stored "A"
C30_Witness ==
    /\ Len(options) = 2
    /\ declared[1].long_flag = <<"f", "o", "o">>
    /\ declared[1].arg_name = <<"[", "A", "]">>
    /\ options[1].arg_name = <<"[", "=", "A", "]">>
    /\ declared[2].long_flag = <<>>
    /\ declared[2].arg_name = <<"=", "A">>
    /\ options[2].arg_name = <<"A">>

\* C31: a short flag declared with more than one character is stored as its
\* first character only, which is the long flag too when none is given; a
\* cluster character names an option exactly when it is the first character
\* of a declared short flag, whatever characters follow it in the declared
\* text, and the occurrence is recorded under the long flag given, or under
\* that first character
C31_ShortFlagFirstCharacter ==
    /\ [](\A k \in 1..Len(options) :
             Len(declared[k].short_flag) > 1
             => /\ options[k].short_flag = << declared[k].short_flag[1] >>
                /\ declared[k].long_flag = <<>>
                   => options[k].long_flag = << declared[k].short_flag[1] >>)
    /\ [][ (InLoop /\ IsCluster(Cur))
           => LET named(c) == { k \in 1..Len(declared) :
                                   /\ declared[k].short_flag # <<>>
                                   /\ declared[k].short_flag[1] = c }
                  k    == CHOOSE n \in named(Cur[2]) :
                             \A m \in named(Cur[2]) : n <= m
                  name == IF declared[k].long_flag = <<>>
                          THEN << declared[k].short_flag[1] >>
                          ELSE declared[k].long_flag
                  fail == pc' # "parse" /\ ~result'.has_value
              IN  IF named(Cur[2]) = {} THEN fail
                  ELSE IF Len(Cur) = 2
                  THEN IF RequiredArg(options[k])
                       THEN IF first + 1 < last
                            THEN count(res', name) = count(res, name) + 1
                            ELSE fail
                       ELSE /\ pc' = "parse"
                            /\ count(res', name) = count(res, name) + 1
                  ELSE IF NoArg(options[k])
                  THEN named(Cur[3]) = {} => fail
                  ELSE /\ pc' = "parse"
                       /\ get_arguments_for_option(res', name)
                            = Append(get_arguments_for_option(res, name),
                                     SubSeq(Cur, 3, Len(Cur)))
         ]_vars

\* an option declared with the short flag "gh" and no long flag has been
\* given as -g and is recorded under the name g
C31_Witness ==
    /\ pc = "done"
    /\ result.has_value
    /\ argv = << <<"a">>, <<"-", "g">> >>
    /\ \E k \in 1..Len(declared) :
          declared[k].short_flag = <<"g", "h">> /\ declared[k].long_flag = <<>>
    /\ count(result.value, <<"g">>) = 1

\* with options declared under the short flag "gh" only, -h has failed
C31_WitnessOtherCharacter ==
    /\ pc = "done"
    /\ ~result.has_value
    /\ argv = << <<"-", "h">> >>
    /\ Len(declared) = 2
    /\ \A k \in 1..Len(declared) : declared[k].short_flag = <<"g", "h">>

\* C34: an option declared with a short flag and no long flag is found by
\* that flag as a long name: "--f" counts an occurrence under the name f and
\* "--f=value" gives it the value when it takes an argument.  An option
\* declared with an empty short flag is matched by no character of a short
\* cluster: a cluster records nothing under its name unless another option
\* of that name has a short flag
C34_ShortFlagAsLongName ==
    [][ /\ (InLoop /\ IsLongElement(Cur))
           => LET canonical(k) ==
                      IF declared[k].long_flag # <<>>
                      THEN declared[k].long_flag
                      ELSE IF declared[k].short_flag = <<>> THEN <<>>
                      ELSE << declared[k].short_flag[1] >>
                  named == { k \in 1..Len(declared) :
                                canonical(k) = LongName(Cur) }
                  k     == CHOOSE n \in named : \A m \in named : n <= m
                  name  == << declared[k].short_flag[1] >>
                  fail  == pc' # "parse" /\ ~result'.has_value
              IN  (/\ named # {}
                   /\ declared[k].long_flag = <<>>
                   /\ declared[k].short_flag # <<>>)
                  => /\ LongName(Cur) = name
                     /\ IF HasInline(Cur)
                        THEN IF NoArg(options[k]) THEN fail
                             ELSE /\ pc' = "parse"
                                  /\ count(res', name) = count(res, name) + 1
                                  /\ get_arguments_for_option(res', name)
                                       = Append(get_arguments_for_option(
                                                   res, name),
                                                InlineValue(Cur))
                        ELSE IF RequiredArg(options[k]) /\ first + 1 >= last
                        THEN fail
                        ELSE count(res', name) = count(res, name) + 1
        /\ (InLoop /\ IsCluster(Cur))
           => \A k \in 1..Len(declared) :
                 (/\ declared[k].short_flag = <<>>
                  /\ \A j \in 1..Len(declared) :
                        options[j].long_flag = options[k].long_flag
                        => declared[j].short_flag = <<>>)
                 => /\ count(res', options[k].long_flag)
                         = count(res, options[k].long_flag)
                    /\ get_arguments_for_option(res', options[k].long_flag)
                         = get_arguments_for_option(res, options[k].long_flag)
      ]_vars

\* an option declared as -f with an argument and no long flag has been given
\* as --f=a, and a is its argument under the name f
C34_Witness ==
    /\ pc = "done"
    /\ result.has_value
    /\ argv = << <<"-", "-", "f", "=", "a">> >>
    /\ \A k \in 1..Len(declared) : declared[k].long_flag = <<>>
    /\ count(result.value, <<"f">>) = 1
    /\ get_arguments_for_option(result.value, <<"f">>) = << <<"a">> >>

\* with every option declared without a short flag, the cluster -f has failed
C34_WitnessNoShortFlag ==
    /\ pc = "done"
    /\ ~result.has_value
    /\ argv = << <<"-", "f">>, <<"-", "-">> >>
    /\ Len(declared) = 2
    /\ \A k \in 1..Len(declared) : declared[k].short_flag = <<>>

\* C32: the lines word_wrap returns are substrings of the input that start
\* at the first word and at later words, in order, and end at the last word
\* before the next line (the last one at the last word or at the end of the
\* input); each line has at most width characters or no space; and a line
\* ends before a word only when the line extended to the end of that word
\* would have more than width characters.  An input without a word gives no
\* line
C32_GreedyWordWrap ==
    (pc = "done" /\ call.fn = "word_wrap")
    => LET sv    == call.sv
           width == call.width
           lines == call.result
           WordStarts == { i \in 1..Len(sv) :
                              sv[i] # " " /\ (i = 1 \/ sv[i - 1] = " ") }
           WordEnds   == { j \in 1..Len(sv) :
                              sv[j] # " " /\ (j = Len(sv) \/ sv[j + 1] = " ") }
           WordEndOf(i) == CHOOSE j \in WordEnds :
                              j >= i /\ \A m \in WordEnds : m >= i => j <= m
           LastBefore(i) == CHOOSE j \in WordEnds :
                              j < i /\ \A m \in WordEnds : m < i => m <= j
           LastWordEnd == CHOOSE j \in WordEnds : \A m \in WordEnds : m <= j
           Fits(line) == \/ Len(line) <= width
                         \/ \A m \in 1..Len(line) : line[m] # " "
       IN  IF WordStarts = {} THEN lines = <<>>
           ELSE \E starts \in SUBSET WordStarts :
                   LET nth(i) == CHOOSE x \in starts :
                                    Cardinality({y \in starts : y < x}) = i - 1
                       n      == Len(lines)
                   IN  /\ Cardinality(starts) = n
                       /\ \A w \in WordStarts : \E x \in starts : x <= w
                       /\ \A i \in 1..n : Fits(lines[i])
                       /\ \A i \in 1..(n - 1) :
                             /\ lines[i] = SubSeq(sv, nth(i),
                                                  LastBefore(nth(i + 1)))
                             /\ WordEndOf(nth(i + 1)) - nth(i) + 1 > width
                       /\ \/ lines[n] = SubSeq(sv, nth(n), LastWordEnd)
                          \/ lines[n] = SubSeq(sv, nth(n), Len(sv))

\* a string has been wrapped into more than one line, and a line holds more
\* than one word
C32_Witness ==
    /\ pc = "done"
    /\ call.fn = "word_wrap"
    /\ Len(call.result) > 1
    /\ \E i \in 1..Len(call.result) :
          \E m \in 1..Len(call.result[i]) : call.result[i][m] = " "

\* a word longer than the width has been returned as a line of its own,
\* before another line
C32_WitnessLongWord ==
    /\ pc = "done"
    /\ call.fn = "word_wrap"
    /\ Len(call.result) > 1
    /\ Len(call.result[1]) > call.width
    /\ call.width > 0

\* C33: after a successful parse every element has one role: an element
\* after the terminator, the terminator, the next-token value of the
\* required-argument option element before it, a nonoption, or an option
\* element.  The positional arguments are the nonoptions and the elements
\* after the terminator, in order, and nothing else; every option element
\* has recorded an occurrence and the count of an option is the number of
\* times the option elements give it; every next-token value is an argument
\* of the option of the element before it, and an option has one argument
\* for each next-token value and each inline value given to it
C33_EveryElementOnce ==
    (Returned /\ result.has_value)
    => LET role[i \in Base..(last - 1)] ==
               LET e    == deref(argv, i)
                   prev == IF i = Base THEN "none" ELSE role[i - 1]
               IN  IF prev \in {"terminator", "after"} THEN "after"
                   ELSE IF prev = "taking" THEN "value"
                   ELSE IF e = <<"-", "-">> THEN "terminator"
                   ELSE IF IsNonoption(e) THEN "positional"
                   ELSE IF TakesNext(e) THEN "taking"
                   ELSE "option"
           indices == [j \in 1..(last - Base) |-> Base + j - 1]
           kept    == SelectSeq(indices,
                                LAMBDA i : role[i] \in {"positional", "after"})
           processed == { i \in Base..(last - 1) :
                             role[i] \in {"option", "taking"} }
           taker(i)  == CHOOSE o \in Opts :
                           /\ RequiredArg(o)
                           /\ \/ IsLong(deref(argv, i), o)
                              \/ IsLastOfCluster(deref(argv, i), o)
           inline(e, o) ==
               \/ IsLongElement(e) /\ HasInline(e) /\ LongName(e) = o.long_flag
               \/ /\ IsCluster(e)
                  /\ ~NoArg(o)
                  /\ \E j \in 2..(Len(e) - 1) : Reached(e, j) /\ IsFlagAt(e, j, o)
           given(o) ==
               LET sum[i \in Base..last] ==
                       IF i = last THEN 0
                       ELSE (IF i \in processed
                             THEN GivenIn(deref(argv, i), o) ELSE 0)
                            + sum[i + 1]
               IN  sum[Base]
           value == result.value
       IN  /\ get_positional_arguments(value)
                = [j \in 1..Len(kept) |-> deref(argv, kept[j])]
           /\ \A i \in processed :
                 \E o \in Opts : /\ GivenIn(deref(argv, i), o) >= 1
                                 /\ count(value, o.long_flag) >= 1
           /\ \A o \in Opts : count(value, o.long_flag) = given(o)
           /\ \A i \in Base..(last - 1) :
                 role[i] = "value"
                 => \E n \in 1..Len(get_arguments_for_option(
                                       value, taker(i - 1).long_flag)) :
                       get_arguments_for_option(
                           value, taker(i - 1).long_flag)[n] = deref(argv, i)
           /\ \A o \in Opts :
                 Len(get_arguments_for_option(value, o.long_flag))
                   = Cardinality({ i \in Base..(last - 1) :
                                      role[i] = "value" /\ taker(i - 1) = o })
                     + Cardinality({ i \in processed :
                                        inline(deref(argv, i), o) })
           /\ SumCounts(get_parsed_options(value)) >= Cardinality(processed)

\* a parse has succeeded on a list with an option element, its next-token
\* value and a nonoption
C33_Witness ==
    /\ Returned
    /\ result.has_value
    /\ last - Base = 3
    /\ TakesNext(deref(argv, Base))
    /\ deref(argv, Base + 2) = <<"a">>
    /\ get_positional_arguments(result.value) = << <<"a">> >>
    /\ SumCounts(get_parsed_options(result.value)) >= 1

\* a parse has succeeded on a list with a positional argument before the
\* terminator and an element after it
C33_WitnessTerminator ==
    /\ Returned
    /\ result.has_value
    /\ last - Base = 3
    /\ deref(argv, Base) = <<"a">>
    /\ deref(argv, Base + 1) = <<"-", "-">>
    /\ Len(get_positional_arguments(result.value)) = 2

====
